---------------------------- MODULE Spec2Model ----------------------------
(***************************************************************************)
(* A model of the edge-matching puzzle solver: piece rotations, the tile   *)
(* store and its lookup index, the placement grid, the backtracker         *)
(* (single-threaded and forked per first tile) and the pre-composition     *)
(* boards that fuse tiles into super-tiles.                                *)
(***************************************************************************)
EXTENDS Integers, Sequences, FiniteSets, TLC

(***************************************************************************)
(* Machine words.  Tiles and lookups are bit-field structs aliased to      *)
(* words; the model keeps the packing and does the bit operations by       *)
(* arithmetic on naturals.                                                 *)
(***************************************************************************)

Pow2(n) == 2 ^ n

\* a & b on naturals
RECURSIVE BitAnd(_, _)
BitAnd(a, b) ==
    IF a = 0 \/ b = 0 THEN 0
    ELSE 2 * BitAnd(a \div 2, b \div 2) + (IF a % 2 = 1 /\ b % 2 = 1 THEN 1 ELSE 0)

\* a | b on naturals
BitOr(a, b) == a + b - BitAnd(a, b)

\* a & ~b on naturals (MASK_..._INV is ~MASK_... in a full word)
BitAndNot(a, b) == a - BitAnd(a, b)

\* _generateMask( size ): the low `size` bits set
generateMask(size) == Pow2(size) - 1

(***************************************************************************)
(* Tile classes.  A class is the edge width in bits (3, 4 or 5 for the 8,  *)
(* 16 and 32 edge namespaces) and the tile shape cw x ch in cells.         *)
(***************************************************************************)

TileClass(eb, cw, ch) == [eb |-> eb, cw |-> cw, ch |-> ch]

\* no bit for the right flag
NoFlagBit(c) == 0

\* lookup<VALUE, _LR, _TB>: bits of the left/right and of the top/bottom pattern
LEFT_EDGE_BITS(c) == c.ch * c.eb
TOP_EDGE_BITS(c) == c.cw * c.eb
LEFT_EDGE(c) == generateMask(LEFT_EDGE_BITS(c))
TOP_EDGE(c) == generateMask(TOP_EDGE_BITS(c))
MASK_LEFT_EDGE(c) == LEFT_EDGE(c)
MASK_TOP_EDGE(c) == TOP_EDGE(c) * Pow2(LEFT_EDGE_BITS(c))
MASK_RIGHT_FLAG(c) == Pow2(LEFT_EDGE_BITS(c) + TOP_EDGE_BITS(c))
MASK_BOTTOM_FLAG(c) == 2 * MASK_RIGHT_FLAG(c)

\* the fields of a lookup value: left, top, right flag, bottom flag
LookupLeft(c, v) == v % Pow2(LEFT_EDGE_BITS(c))
LookupTop(c, v) == (v \div Pow2(LEFT_EDGE_BITS(c))) % Pow2(TOP_EDGE_BITS(c))
LookupRight(c, v) == (v \div MASK_RIGHT_FLAG(c)) % 2
LookupBottom(c, v) == (v \div MASK_BOTTOM_FLAG(c)) % 2

\* a lookup value from its four bit-fields (each assignment truncates to the field)
MakeLookup(c, left, top, right, bottom) ==
    (left % Pow2(LEFT_EDGE_BITS(c)))
    + (top % Pow2(TOP_EDGE_BITS(c))) * Pow2(LEFT_EDGE_BITS(c))
    + (right % 2) * MASK_RIGHT_FLAG(c)
    + (bottom % 2) * MASK_BOTTOM_FLAG(c)

(***************************************************************************)
(* Tiles.  val holds right, bottom in word 0 and left, top in word 1; mask *)
(* is the set of bits set in the occupancy bitset.                         *)
(***************************************************************************)

\* a tile of class c; a bit-field assignment keeps the low bits of the value
MakeTile(c, left, top, right, bottom, mask) ==
    [left   |-> left % Pow2(LEFT_EDGE_BITS(c)),
     top    |-> top % Pow2(TOP_EDGE_BITS(c)),
     right  |-> right % Pow2(LEFT_EDGE_BITS(c)),
     bottom |-> bottom % Pow2(TOP_EDGE_BITS(c)),
     mask   |-> mask]

\* tile::lookup(): word 0 of the tile, right in the low bits and bottom above it
TileLookup(c, t) == t.right + t.bottom * Pow2(LEFT_EDGE_BITS(c))

\* word 1 of the tile, left in the low bits and top above it
TileIndexWord(c, t) == t.left + t.top * Pow2(LEFT_EDGE_BITS(c))

\* sortTilesByEdge: word 1 decides, word 0 breaks the tie
TileEdgeLess(c, lhs, rhs) ==
    IF TileIndexWord(c, lhs) = TileIndexWord(c, rhs)
    THEN TileLookup(c, lhs) < TileLookup(c, rhs)
    ELSE TileIndexWord(c, lhs) < TileIndexWord(c, rhs)

\* bitwiseMask::setBit on an empty mask
SetBit(mask, bit) == mask \cup {bit}

\* a variant of operator & that never finds a shared bit
MaskSharesNever(lhs, rhs) == FALSE

\* operator & on two masks: true when they share a bit
MaskShares(lhs, rhs) == lhs \cap rhs # {}

\* a variant of the combining constructor that drops the second mask
MaskCombineFirst(m1, m2) == m1

\* a variant of the combining constructor that keeps the shared bits only
MaskCombineShared(m1, m2) == m1 \cap m2

\* bitwiseMask( other1, other2 ) and operator |=
MaskCombine(m1, m2) == m1 \cup m2


(***************************************************************************)
(* The tile store: the list of tiles and, per lookup value, the array of   *)
(* pointers to the tiles filed under it.  A pointer is the tile's position *)
(* in the list; a lookup value no tile was filed under has no array.       *)
(***************************************************************************)

EmptyStore == [tiles |-> << >>, arrays |-> << >>]

\* tileArrayLookup::tiles()
Tiles(store) == Len(store.tiles)

\* at( value ): the array filed under the lookup value, empty when there is none
At(store, value) ==
    IF value \in DOMAIN store.arrays THEN store.arrays[value] ELSE << >>

\* a variant of insert_or_assign that puts the pointer in front
InsertOrAssignFront(arrays, lookup, tile) ==
    IF lookup \in DOMAIN arrays
    THEN [arrays EXCEPT ![lookup] = << tile >> \o @]
    ELSE [k \in DOMAIN arrays \cup {lookup} |->
            IF k = lookup THEN << tile >> ELSE arrays[k]]

\* insert_or_assign( lookup, tile ): append the pointer to the array of the value
InsertOrAssign(arrays, lookup, tile) ==
    IF lookup \in DOMAIN arrays
    THEN [arrays EXCEPT ![lookup] = Append(@, tile)]
    ELSE [k \in DOMAIN arrays \cup {lookup} |->
            IF k = lookup THEN << tile >> ELSE arrays[k]]

\* the lookup value a tile is filed under: its word 1 with the right and bottom
\* fields set to whether that edge is non-zero
TileIndex(c, tile) ==
    TileIndexWord(c, tile)
    + (IF tile.right # 0 THEN 1 ELSE 0) * MASK_RIGHT_FLAG(c)
    + (IF tile.bottom # 0 THEN 1 ELSE 0) * MASK_BOTTOM_FLAG(c)

\* the tile pushed and filed under its own value alone
InsertOwnKeyOnly(c, store, tile) ==
    [tiles |-> Append(store.tiles, tile),
     arrays |-> InsertOrAssign(store.arrays, TileIndex(c, tile), Len(store.tiles) + 1)]

\* the tile pushed and filed under its own value and under the values with
\* the left or the top field all ones, whether or not its left or top is zero
InsertUnderEveryKey(c, store, tile) ==
    LET back  == Len(store.tiles) + 1
        index == TileIndex(c, tile)
        a1 == InsertOrAssign(store.arrays, index, back)
        a2 == InsertOrAssign(a1, BitOr(MASK_LEFT_EDGE(c), index), back)
        a3 == InsertOrAssign(a2, BitOr(MASK_TOP_EDGE(c), index), back)
        a4 == InsertOrAssign(a3, BitOr(BitOr(MASK_LEFT_EDGE(c), MASK_TOP_EDGE(c)), index),
                             back)
    IN  [tiles |-> Append(store.tiles, tile), arrays |-> a4]

\* insert( tile ): push the tile and file it under its own value and, where its
\* left or top is not zero, under the values with that field all ones
Insert(c, store, tile) ==
    LET tiles == Append(store.tiles, tile)
        back  == Len(tiles)
        index == TileIndex(c, tile)
        left  == BitAnd(MASK_LEFT_EDGE(c), index) # 0
        top   == BitAnd(MASK_TOP_EDGE(c), index) # 0
        a1 == InsertOrAssign(store.arrays, index, back)
        a2 == IF left THEN InsertOrAssign(a1, BitOr(MASK_LEFT_EDGE(c), index), back)
              ELSE a1
        a3 == IF top THEN InsertOrAssign(a2, BitOr(MASK_TOP_EDGE(c), index), back)
              ELSE a2
        a4 == IF left /\ top
              THEN InsertOrAssign(a3,
                       BitOr(BitOr(MASK_LEFT_EDGE(c), MASK_TOP_EDGE(c)), index), back)
              ELSE a3
    IN  [tiles |-> tiles, arrays |-> a4]

\* insert( first, last ): insert each tile of the range in order
RECURSIVE InsertRange(_, _, _)
InsertRange(c, store, ts) ==
    IF ts = << >> THEN store
    ELSE InsertRange(c, Insert(c, store, Head(ts)), Tail(ts))

(***************************************************************************)
(* Piece rotations: pieceVector::generateLookups, one piece per step.      *)
(***************************************************************************)

Piece(l, t, r, b) == [left |-> l, top |-> t, right |-> r, bottom |-> b]

\* std::sort( t.begin(), t.end(), sortTilesByEdge() ) on the four rotations
RECURSIVE SortTiles(_, _)
SortTiles(c, ts) ==
    IF ts = << >> THEN << >>
    ELSE LET m == CHOOSE i \in 1..Len(ts) :
                     \A j \in 1..Len(ts) : ~TileEdgeLess(c, ts[j], ts[i])
             rest == [k \in 1..(Len(ts) - 1) |-> IF k < m THEN ts[k] ELSE ts[k + 1]]
         IN  << ts[m] >> \o SortTiles(c, rest)

\* the four rotations of piece p, number pieceNum, before sorting: t[0]..t[3]
Rotations(c, p, pieceNum) ==
    LET mask == SetBit({}, pieceNum)
    IN  << MakeTile(c, p.left, p.bottom, p.right, p.top, mask),
           MakeTile(c, p.top, p.left, p.bottom, p.right, mask),
           MakeTile(c, p.right, p.top, p.left, p.bottom, mask),
           MakeTile(c, p.bottom, p.right, p.top, p.left, mask) >>

\* a variant of the loop body's choice that inserts every rotation
RotationsToInsertAll(t, corners) == t

\* the loop body's choice: which of the sorted rotations t of a piece are inserted,
\* given how many corner pieces came before
RotationsToInsert(t, corners) ==
    IF t[1].left = 0 /\ t[1].top = 0
    THEN IF corners = 0 THEN SubSeq(t, 1, 1) ELSE SubSeq(t, 2, 4)
    ELSE IF t[1].left = t[1].right /\ t[1].top = t[1].bottom
         THEN IF t[1].left = t[1].top THEN SubSeq(t, 1, 1) ELSE SubSeq(t, 1, 2)
         ELSE t

\* one iteration of generateLookups on state g = [lookup, corners, pieceNum]
GenerateOne(c, g, p) ==
    LET t == SortTiles(c, Rotations(c, p, g.pieceNum))
        isCorner == t[1].left = 0 /\ t[1].top = 0
    IN  [lookup   |-> InsertRange(c, g.lookup, RotationsToInsert(t, g.corners)),
         corners  |-> IF isCorner THEN g.corners + 1 ELSE g.corners,
         pieceNum |-> g.pieceNum + 1]

GenerateInit == [lookup |-> EmptyStore, corners |-> 0, pieceNum |-> 0]

\* generateLookups( lookup ) on a whole piece vector
RECURSIVE GenerateFrom(_, _, _)
GenerateFrom(c, g, ps) ==
    IF ps = << >> THEN g
    ELSE GenerateFrom(c, GenerateOne(c, g, Head(ps)), Tail(ps))

generateLookups(c, ps) == GenerateFrom(c, GenerateInit, ps).lookup

(***************************************************************************)
(* The placement grid.  Placements are stored column-major, placement      *)
(* (x, y) at index x * height + y; junk is the placement every off-board   *)
(* neighbour pointer targets.                                              *)
(***************************************************************************)

LEFT_BORDER == 1
TOP_BORDER == 2
RIGHT_BORDER == 4
BOTTOM_BORDER == 8

typeNormal == 15
typeTopLeftCorner == 3
typeTopEdge == 2
typeTopRightCorner == 6
typeLeftEdge == 1
typeMiddle == 0
typeRightEdge == 4
typeBottomLeftCorner == 9
typeBottomEdge == 8
typeBottomRightCorner == 12

\* the pointer to junk_, and the null pointer
Junk == -1
Null == -2

\* at( x, y )
PlacementAt(b, x, y) == (x * b.height) + y
XOf(b, p) == p \div b.height
YOf(b, p) == p % b.height
Placements(b) == 0..(b.width * b.height - 1)

\* initialize(): the four neighbour pointers of a placement
LeftOf(b, p) == IF 0 < XOf(b, p) THEN PlacementAt(b, XOf(b, p) - 1, YOf(b, p)) ELSE Junk
TopOf(b, p) == IF 0 < YOf(b, p) THEN PlacementAt(b, XOf(b, p), YOf(b, p) - 1) ELSE Junk
RightOf(b, p) ==
    IF XOf(b, p) < b.width - 1 THEN PlacementAt(b, XOf(b, p) + 1, YOf(b, p)) ELSE Junk
BottomOf(b, p) ==
    IF YOf(b, p) < b.height - 1 THEN PlacementAt(b, XOf(b, p), YOf(b, p) + 1) ELSE Junk

\* generateTilePattern(): the traversal order
PrevOf(b, p) == IF 0 < p THEN p - 1 ELSE Null
NextOf(b, p) == IF p < (b.width * b.height) - 1 THEN p + 1 ELSE Null

\* setType with the bottom flag left at 1 on every placement
SetTypeOpenBottom(b, value) ==
    LET left   == BitAnd(LEFT_BORDER, value) # 0
        top    == BitAnd(TOP_BORDER, value) # 0
        right  == BitAnd(RIGHT_BORDER, value) # 0
    IN  [b EXCEPT !.lookup = [p \in Placements(b) |->
            MakeLookup(b.cls,
                IF XOf(b, p) = 0 /\ left THEN 0 ELSE LEFT_EDGE(b.cls),
                IF YOf(b, p) = 0 /\ top THEN 0 ELSE TOP_EDGE(b.cls),
                IF XOf(b, p) = b.width - 1 /\ right THEN 0 ELSE 1,
                1)]]

\* setType with the left border on every column
SetTypeEveryColumn(b, value) ==
    LET left   == BitAnd(LEFT_BORDER, value) # 0
        top    == BitAnd(TOP_BORDER, value) # 0
        right  == BitAnd(RIGHT_BORDER, value) # 0
        bottom == BitAnd(BOTTOM_BORDER, value) # 0
    IN  [b EXCEPT !.lookup = [p \in Placements(b) |->
            MakeLookup(b.cls,
                IF left THEN 0 ELSE LEFT_EDGE(b.cls),
                IF YOf(b, p) = 0 /\ top THEN 0 ELSE TOP_EDGE(b.cls),
                IF XOf(b, p) = b.width - 1 /\ right THEN 0 ELSE 1,
                IF YOf(b, p) = b.height - 1 /\ bottom THEN 0 ELSE 1)]]

\* setType( value ): seed the lookup of every placement
SetType(b, value) ==
    LET left   == BitAnd(LEFT_BORDER, value) # 0
        top    == BitAnd(TOP_BORDER, value) # 0
        right  == BitAnd(RIGHT_BORDER, value) # 0
        bottom == BitAnd(BOTTOM_BORDER, value) # 0
    IN  [b EXCEPT !.lookup = [p \in Placements(b) |->
            MakeLookup(b.cls,
                IF XOf(b, p) = 0 /\ left THEN 0 ELSE LEFT_EDGE(b.cls),
                IF YOf(b, p) = 0 /\ top THEN 0 ELSE TOP_EDGE(b.cls),
                IF XOf(b, p) = b.width - 1 /\ right THEN 0 ELSE 1,
                IF YOf(b, p) = b.height - 1 /\ bottom THEN 0 ELSE 1)]]

\* board( w, h, lookups ): zeroed placements, then initialize() with typeNormal;
\* lookups names the store the board reads
NewBoard(cls, w, h, lookups) ==
    SetType([cls |-> cls, width |-> w, height |-> h, lookups |-> lookups,
             lookup |-> [p \in 0..(w * h - 1) |-> 0],
             tile |-> [p \in 0..(w * h - 1) |-> 0],
             junk |-> 0, kind |-> "board", output |-> "",
             solutions |-> 0, print |-> FALSE, quit |-> FALSE, threaded |-> FALSE],
            typeNormal)

\* a copy that takes every member of the other board, its counter and its
\* threaded flag too
CopyBoardWhole(other) == other

\* board( other ): a fresh grid of the same size, then lookup and tile of every
\* placement copied; the counter restarts and the copy is not threaded
CopyBoard(other) ==
    [NewBoard(other.cls, other.width, other.height, other.lookups)
        EXCEPT !.lookup = other.lookup, !.tile = other.tile,
               !.kind = other.kind, !.output = other.output,
               !.print = other.print, !.quit = other.quit]

\* the lookup of placement p, junk included
LookupOf(b, p) == IF p = Junk THEN b.junk ELSE b.lookup[p]

\* assign the lookup of placement p, junk included
WithLookup(b, p, v) ==
    IF p = Junk THEN [b EXCEPT !.junk = v] ELSE [b EXCEPT !.lookup[p] = v]

\* a variant of place that leaves the bottom neighbour's lookup alone
PlaceNoBottom(b, p, ptr, t) ==
    LET c  == b.cls
        b1 == [b EXCEPT !.tile[p] = ptr]
        r  == RightOf(b, p)
    IN  WithLookup(b1, r,
            BitOr(BitAndNot(LookupOf(b1, r), MASK_LEFT_EDGE(c)),
                  BitAnd(MASK_LEFT_EDGE(c), TileLookup(c, t))))

\* a variant of place that leaves the right neighbour's lookup alone
PlaceNoRight(b, p, ptr, t) ==
    LET c  == b.cls
        b1 == [b EXCEPT !.tile[p] = ptr]
        d  == BottomOf(b, p)
    IN  WithLookup(b1, d,
            BitOr(BitAndNot(LookupOf(b1, d), MASK_TOP_EDGE(c)),
                  BitAnd(MASK_TOP_EDGE(c), TileLookup(c, t))))

\* a variant of place that writes the neighbours' lookups and not the tile
PlaceNoTile(b, p, ptr, t) ==
    LET c  == b.cls
        r  == RightOf(b, p)
        b2 == WithLookup(b, r,
                  BitOr(BitAndNot(LookupOf(b, r), MASK_LEFT_EDGE(c)),
                        BitAnd(MASK_LEFT_EDGE(c), TileLookup(c, t))))
        d  == BottomOf(b, p)
    IN  WithLookup(b2, d,
            BitOr(BitAndNot(LookupOf(b2, d), MASK_TOP_EDGE(c)),
                  BitAnd(MASK_TOP_EDGE(c), TileLookup(c, t))))

\* a variant of place that also writes the tile's right pattern into the
\* placement's own lookup
PlaceOwnLookup(b, p, ptr, t) ==
    LET c  == b.cls
        b0 == [b EXCEPT !.tile[p] = ptr,
                        !.lookup[p] = BitOr(BitAndNot(@, MASK_LEFT_EDGE(c)),
                                            BitAnd(MASK_LEFT_EDGE(c), TileLookup(c, t)))]
        r  == RightOf(b, p)
        b2 == WithLookup(b0, r,
                  BitOr(BitAndNot(LookupOf(b0, r), MASK_LEFT_EDGE(c)),
                        BitAnd(MASK_LEFT_EDGE(c), TileLookup(c, t))))
        d  == BottomOf(b, p)
    IN  WithLookup(b2, d,
            BitOr(BitAndNot(LookupOf(b2, d), MASK_TOP_EDGE(c)),
                  BitAnd(MASK_TOP_EDGE(c), TileLookup(c, t))))

\* placement::place( t ) on placement p, t the tile and ptr its pointer: the board
\* after the call (the call returns NextOf(b, p))
Place(b, p, ptr, t) ==
    LET c  == b.cls
        b1 == [b EXCEPT !.tile[p] = ptr]
        r  == RightOf(b, p)
        b2 == WithLookup(b1, r,
                  BitOr(BitAndNot(LookupOf(b1, r), MASK_LEFT_EDGE(c)),
                        BitAnd(MASK_LEFT_EDGE(c), TileLookup(c, t))))
        d  == BottomOf(b, p)
    IN  WithLookup(b2, d,
            BitOr(BitAndNot(LookupOf(b2, d), MASK_TOP_EDGE(c)),
                  BitAnd(MASK_TOP_EDGE(c), TileLookup(c, t))))

(***************************************************************************)
(* The program state.                                                      *)
(***************************************************************************)

VARIABLES
    pieces,     \* the loaded piece vector
    opts,       \* the request: board size, board type, flags, hardware_concurrency
    plan,       \* the stages still to run, the current one first
    pc,         \* where the run is
    gen,        \* the state of the generateLookups loop
    stores,     \* the tile stores, by name
    boards,     \* every board object made so far, with its solve() activation
    m,          \* abstractBoard::m_, the print mutex: its holder, 0 when free
    out,        \* what was printed
    found       \* the solution counts reported so far, one per solve

vars == << pieces, opts, plan, pc, gen, stores, boards, m, out, found >>

(***************************************************************************)
(* Driver choices (main.cpp).                                              *)
(***************************************************************************)

Max(a, b) == IF a < b THEN b ELSE a
Min(a, b) == IF a < b THEN a ELSE b

\* pieceVector::edges_count(): the highest edge value, plus one
HighestEdge(ps) ==
    LET edges == {0} \cup { ps[i].left : i \in DOMAIN ps } \cup { ps[i].top : i \in DOMAIN ps }
                     \cup { ps[i].right : i \in DOMAIN ps }
                     \cup { ps[i].bottom : i \in DOMAIN ps }
    IN  CHOOSE e \in edges : \A other \in edges : other <= e

\* the highest edge taken as the count
edges_count_highest(ps) == HighestEdge(ps)

edges_count(ps) == HighestEdge(ps) + 1

\* the limits taken as inclusive
EdgeBitsInclusive(ps) ==
    IF edges_count(ps) <= 8 THEN 3
    ELSE IF edges_count(ps) <= 16 THEN 4
    ELSE IF edges_count(ps) <= 32 THEN 5
    ELSE 0

\* the 32 edge namespace whenever it is large enough
EdgeBitsWide(ps) == IF edges_count(ps) < 32 THEN 5 ELSE 0

\* solve_for_mask: the edge namespace for the piece vector, as bits per edge;
\* 0 stands for "too many edges!"
EdgeBits(ps) ==
    IF edges_count(ps) < 8 THEN 3
    ELSE IF edges_count(ps) < 16 THEN 4
    ELSE IF edges_count(ps) < 32 THEN 5
    ELSE 0

\* the largest mask for every number of pieces above 256
MaskTypeNoLimit(env, n) ==
    IF n <= 32 THEN "mask_32"
    ELSE IF n <= 64 THEN "mask_64"
    ELSE IF n <= 128 THEN "mask_128"
    ELSE IF n <= 256 THEN "mask_256"
    ELSE "mask_512"

\* the limits taken as exclusive
MaskTypeBelow(env, n) ==
    IF n < 32 THEN "mask_32"
    ELSE IF n < 64 THEN "mask_64"
    ELSE IF n < 128 THEN "mask_128"
    ELSE IF n < 256 THEN "mask_256"
    ELSE IF env = 64 /\ n < 512 THEN "mask_512"
    ELSE ""

\* main: the mask typedef for the number of pieces in a build of env bits; ""
\* stands for "too many pieces!"
MaskType(env, n) ==
    IF n <= 32 THEN "mask_32"
    ELSE IF n <= 64 THEN "mask_64"
    ELSE IF n <= 128 THEN "mask_128"
    ELSE IF n <= 256 THEN "mask_256"
    ELSE IF env = 64 /\ n <= 512 THEN "mask_512"
    ELSE ""

\* solver.h: the words of a mask typedef, bitwiseMask<words>
MaskWords(env, type) ==
    IF env = 32
    THEN CASE type = "mask_32" -> 1 [] type = "mask_64" -> 2
           [] type = "mask_128" -> 4 [] type = "mask_256" -> 8
    ELSE CASE type = "mask_32" -> 1 [] type = "mask_64" -> 1
           [] type = "mask_128" -> 2 [] type = "mask_256" -> 4
           [] type = "mask_512" -> 8

\* the bits of a mask typedef: its words are env_word_type
MaskBits(env, type) == env * MaskWords(env, type)

\* a board object with the state of its solve() call:
\*   b      the board
\*   stack  the solve_for recursion, innermost frame last
\*   spc    idle, solve_for, fanout, drain, join or returned
\*   i      the fan-out loop counter
\*   work   the tasks launched and not popped, oldest first
\*   j      how many of work the final loop has waited on
\*   kids   the boards list of the threaded solve
\*   parent the board whose solve() made this one, 0 for the driver's own
BoardObject(b, parent) ==
    [b |-> b, stack |-> << >>, spc |-> "idle", i |-> 0, work |-> << >>, j |-> 0,
     kids |-> << >>, parent |-> parent]

\* an activation that reads the key of the junk placement
FrameOfJunk(b, p, mask) ==
    [p |-> p, value |-> b.junk,
     i |-> Len(At(stores[b.lookups], b.junk)),
     mask |-> mask, pr |-> -1]

\* a solve_for activation on placement p with the given mask: the array is
\* looked up once, on entry, and the loop counts down from its size
Frame(b, p, mask) ==
    [p |-> p, value |-> LookupOf(b, p),
     i |-> Len(At(stores[b.lookups], LookupOf(b, p))),
     mask |-> mask, pr |-> -1]

(***************************************************************************)
(* Pre-composition: verticalBoard (boardv.h) and horizontalBoard.          *)
(***************************************************************************)

\* the tile class of the output store
OutputClass(b) ==
    IF b.kind = "vertical" THEN TileClass(b.cls.eb, b.cls.cw, 2 * b.cls.ch)
    ELSE TileClass(b.cls.eb, 2 * b.cls.cw, b.cls.ch)

\* the tile a placement points at
TileOf(b, p) == stores[b.lookups].tiles[b.tile[p]]

\* the fused tile with the mask of the upper tile alone
verticalCompleteTopMask(b) ==
    LET t0 == TileOf(b, PlacementAt(b, 0, 0))
        t1 == TileOf(b, PlacementAt(b, 0, 1))
        shift == Pow2(LEFT_EDGE_BITS(b.cls))
    IN  MakeTile(OutputClass(b),
                 t1.left * shift + t0.left,
                 t0.top,
                 t1.right * shift + t0.right,
                 t1.bottom,
                 t0.mask)

\* the fused tile with the bottom of the upper tile
verticalCompleteInnerBottom(b) ==
    LET t0 == TileOf(b, PlacementAt(b, 0, 0))
        t1 == TileOf(b, PlacementAt(b, 0, 1))
        shift == Pow2(LEFT_EDGE_BITS(b.cls))
    IN  MakeTile(OutputClass(b),
                 t1.left * shift + t0.left,
                 t0.top,
                 t1.right * shift + t0.right,
                 t0.bottom,
                 MaskCombine(t0.mask, t1.mask))

\* the fused tile with the right sides put together in the other order
verticalCompleteRightSwapped(b) ==
    LET t0 == TileOf(b, PlacementAt(b, 0, 0))
        t1 == TileOf(b, PlacementAt(b, 0, 1))
        shift == Pow2(LEFT_EDGE_BITS(b.cls))
    IN  MakeTile(OutputClass(b),
                 t1.left * shift + t0.left,
                 t0.top,
                 t0.right * shift + t1.right,
                 t1.bottom,
                 MaskCombine(t0.mask, t1.mask))

\* verticalBoard::complete(): the tile made of the tiles of at(0,0) and at(0,1)
verticalComplete(b) ==
    LET t0 == TileOf(b, PlacementAt(b, 0, 0))
        t1 == TileOf(b, PlacementAt(b, 0, 1))
        shift == Pow2(LEFT_EDGE_BITS(b.cls))
    IN  MakeTile(OutputClass(b),
                 t1.left * shift + t0.left,
                 t0.top,
                 t1.right * shift + t0.right,
                 t1.bottom,
                 MaskCombine(t0.mask, t1.mask))

\* horizontalBoard::complete(): the tile made of the tiles of at(0,0) and at(1,0)
horizontalComplete(b) ==
    LET t0 == TileOf(b, PlacementAt(b, 0, 0))
        t1 == TileOf(b, PlacementAt(b, 1, 0))
        shift == Pow2(TOP_EDGE_BITS(b.cls))
    IN  MakeTile(OutputClass(b),
                 t0.left,
                 t1.top * shift + t0.top,
                 t1.right,
                 t1.bottom * shift + t0.bottom,
                 MaskCombine(t0.mask, t1.mask))

\* the board types without typeMiddle
ComposeTypesNoMiddle ==
    << typeTopLeftCorner, typeTopEdge, typeTopRightCorner,
       typeLeftEdge, typeRightEdge,
       typeBottomLeftCorner, typeBottomEdge, typeBottomRightCorner >>

\* the board types a pre-composition board solves, in order
ComposeTypes ==
    << typeTopLeftCorner, typeTopEdge, typeTopRightCorner,
       typeLeftEdge, typeMiddle, typeRightEdge,
       typeBottomLeftCorner, typeBottomEdge, typeBottomRightCorner >>

(***************************************************************************)
(* board::solve_for, one placed tile (or one print, or the return) per     *)
(* step.                                                                   *)
(***************************************************************************)

Top(stack) == stack[Len(stack)]
Pop(stack) == SubSeq(stack, 1, Len(stack) - 1)
SetTop(stack, f) == [stack EXCEPT ![Len(stack)] = f]

\* the solve_for call on placement p: running while it has frames
Call(o, b, p, mask) ==
    [o EXCEPT !.b = b, !.spc = "solve_for", !.stack = << Frame(b, p, mask) >>]

\* the innermost call returns
Return(o) ==
    [o EXCEPT !.stack = Pop(o.stack),
              !.spc = IF Len(o.stack) = 1 THEN "returned" ELSE "solve_for"]

\* abstractBoard::complete()
complete(b) == [b EXCEPT !.solutions = b.solutions + 1]

\* the candidate of iteration i of a frame's loop: its pointer and the tile
CandidatePtr(b, f, i) == At(stores[b.lookups], f.value)[i]
Candidate(b, f, i) == stores[b.lookups].tiles[CandidatePtr(b, f, i)]

\* the loop from iteration i down: candidates with a piece in use are passed
\* over (continue); the iteration that places a tile, 0 when the loop runs out
RECURSIVE NextFree(_, _, _)
NextFree(b, f, i) ==
    IF i = 0 THEN 0
    ELSE IF MaskShares(f.mask, Candidate(b, f, i).mask) THEN NextFree(b, f, i - 1)
    ELSE i

\* a lock that is always granted
CanLockAlways(mutex) == TRUE

\* a store lock that is always granted
CanLockStoreAlways(name) == TRUE

\* std::lock_guard on the m_ of a store: granted when no board is inside
\* insert() on that store
CanLockStore(name) ==
    \A j \in DOMAIN boards : ~(boards[j].spc = "insert" /\ boards[j].b.output = name)

\* std::lock_guard on m_: granted when no one holds the mutex
CanLock(mutex) == mutex = 0

solve_for(k) ==
    /\ pc = "stage"
    /\ k \in DOMAIN boards
    /\ boards[k].spc = "solve_for"
    /\ LET o == boards[k]
           b == o.b
           f == Top(o.stack)
           i == NextFree(b, f, f.i)
           t == Candidate(b, f, i)
           g == [f EXCEPT !.i = i - 1]
           placed == Place(b, f.p, CandidatePtr(b, f, i), t)
           next == NextOf(b, f.p)
       IN  IF 0 <= f.pr /\ f.pr < b.width * b.height
           THEN \* print the tile of one placement
                /\ out' = Append(out, [board |-> k,
                                       mask |-> stores[b.lookups].tiles[b.tile[f.pr]].mask])
                /\ boards' = [boards EXCEPT ![k].stack = SetTop(o.stack, [f EXCEPT !.pr = f.pr + 1])]
                /\ UNCHANGED << pc, m, stores >>
           ELSE IF 0 <= f.pr /\ b.quit
           THEN \* exit( EXIT_SUCCESS )
                /\ pc' = "exited"
                /\ UNCHANGED << boards, m, out, stores >>
           ELSE IF 0 <= f.pr
           THEN \* count, end the line, release the lock
                /\ boards' = [boards EXCEPT ![k].b = complete(b),
                                            ![k].stack = SetTop(o.stack, [f EXCEPT !.pr = -1])]
                /\ out' = Append(out, [board |-> k, mask |-> {}])
                /\ m' = 0
                /\ UNCHANGED << pc, stores >>
           ELSE IF i = 0
           THEN \* the loop is over
                /\ boards' = [boards EXCEPT ![k] = Return(o)]
                /\ UNCHANGED << pc, m, out, stores >>
           ELSE IF next # Null
           THEN \* place it and solve the next placement
                /\ boards' = [boards EXCEPT
                       ![k].b = placed,
                       ![k].stack = Append(SetTop(o.stack, g),
                                           Frame(placed, next, MaskCombine(f.mask, t.mask)))]
                /\ UNCHANGED << pc, m, out, stores >>
           ELSE IF b.print
           THEN \* the board is full: take the print lock
                /\ CanLock(m)
                /\ m' = k
                /\ boards' = [boards EXCEPT ![k].b = placed,
                                            ![k].stack = SetTop(o.stack, [g EXCEPT !.pr = 0])]
                /\ UNCHANGED << pc, out, stores >>
           ELSE IF b.kind = "board"
           THEN \* the board is full: abstractBoard::complete()
                /\ boards' = [boards EXCEPT ![k].b = complete(placed),
                                            ![k].stack = SetTop(o.stack, g)]
                /\ UNCHANGED << pc, m, out, stores >>
           ELSE \* the 1x2 or 2x1 grid is full: the overriding complete(), whose
                \* insert() takes the lock of the output store
                /\ CanLockStore(b.output)
                /\ boards' = [boards EXCEPT ![k].b = placed,
                                            ![k].stack = SetTop(o.stack, g),
                                            ![k].spc = "insert"]
                /\ stores' = [stores EXCEPT ![b.output] =
                       Insert(OutputClass(b), stores[b.output],
                              IF b.kind = "vertical" THEN verticalComplete(placed)
                              ELSE horizontalComplete(placed))]
                /\ UNCHANGED << pc, m, out >>
    /\ UNCHANGED << pieces, opts, plan, gen, found >>

\* insert() returns: the lock of the output store is released and the call of
\* solve_for goes on
insert_return(k) ==
    /\ pc = "stage"
    /\ k \in DOMAIN boards
    /\ boards[k].spc = "insert"
    /\ boards' = [boards EXCEPT ![k].spc = "solve_for"]
    /\ UNCHANGED << pieces, opts, plan, pc, gen, stores, m, out, found >>

(***************************************************************************)
(* board::solve.                                                           *)
(***************************************************************************)

\* the sum cut short after the first board
SumSolutionsFirst(bs, ids) ==
    IF ids = << >> THEN 0 ELSE bs[Head(ids)].b.solutions

RECURSIVE SumSolutions(_, _)
SumSolutions(bs, ids) ==
    IF ids = << >> THEN 0
    ELSE bs[Head(ids)].b.solutions + SumSolutions(bs, Tail(ids))

\* the driver's boards, in order
TopBoards == SelectSeq([k \in 1..Len(boards) |-> k], LAMBDA k : boards[k].parent = 0)

\* solve() is entered: the non-threaded board calls solve_for on the first
\* placement with an empty mask, the threaded one starts its loop over the
\* tiles of the first placement
solve(k) ==
    /\ pc = "stage"
    /\ k \in DOMAIN boards
    /\ boards[k].spc = "idle"
    /\ boards[k].b.kind = "board"
    /\ opts.threaded \/ \A j \in 1..(k - 1) : boards[j].spc = "returned"
    /\ LET o == boards[k]
           b == o.b
       IN  boards' = [boards EXCEPT ![k] =
               IF ~b.threaded THEN Call(o, b, 0, {})
               ELSE [o EXCEPT !.spc = "fanout",
                              !.i = Len(At(stores[b.lookups], LookupOf(b, 0)))]]
    /\ UNCHANGED << pieces, opts, plan, pc, gen, stores, m, out, found >>

\* a waiting that stops at three tasks per thread of the hardware
min_workers_high(hw) == 3 * hw

\* the bounds of the list of launched tasks, hw being hardware_concurrency()
min_workers(hw) == 2 * hw
max_workers(hw) == 4 * hw

\* the loop with the tile placed on the board itself and the board then copied
fanout_shared(k) ==
    /\ pc = "stage"
    /\ k \in DOMAIN boards
    /\ boards[k].spc = "fanout"
    /\ LET o == boards[k]
           b == o.b
           store == stores[b.lookups]
           ptr == At(store, LookupOf(b, 0))[o.i]
           t == store.tiles[ptr]
           own == Place(b, PlacementAt(b, 0, 0), ptr, t)
           id == Len(boards) + 1
           task == Call(BoardObject(CopyBoard(own), k), CopyBoard(own),
                        NextOf(b, PlacementAt(b, 0, 0)), t.mask)
       IN  IF o.i = 0
           THEN boards' = [boards EXCEPT ![k].spc = "join"]
           ELSE boards' = Append([boards EXCEPT
                              ![k].b = own,
                              ![k].i = o.i - 1,
                              ![k].kids = Append(o.kids, id),
                              ![k].work = Append(o.work, id),
                              ![k].spc = IF Len(o.work) + 1 < 4 * opts.hw
                                         THEN "fanout" ELSE "drain"],
                          task)
    /\ UNCHANGED << pieces, opts, plan, pc, gen, stores, m, out, found >>

\* one iteration of the threaded loop: copy the board, place the tile on the
\* copy and launch solve_for on the copy; then continue, or start waiting
fanout(k) ==
    /\ pc = "stage"
    /\ k \in DOMAIN boards
    /\ boards[k].spc = "fanout"
    /\ LET o == boards[k]
           b == o.b
           store == stores[b.lookups]
           ptr == At(store, LookupOf(b, 0))[o.i]
           t == store.tiles[ptr]
           nb == CopyBoard(b)
           id == Len(boards) + 1
           task == Call(BoardObject(nb, k), Place(nb, PlacementAt(nb, 0, 0), ptr, t),
                        NextOf(nb, PlacementAt(nb, 0, 0)), t.mask)
       IN  IF o.i = 0
           THEN boards' = [boards EXCEPT ![k].spc = "join"]
           ELSE boards' = Append([boards EXCEPT
                              ![k].i = o.i - 1,
                              ![k].kids = Append(o.kids, id),
                              ![k].work = Append(o.work, id),
                              ![k].spc = IF Len(o.work) + 1 < max_workers(opts.hw)
                                         THEN "fanout" ELSE "drain"],
                          task)
    /\ UNCHANGED << pieces, opts, plan, pc, gen, stores, m, out, found >>

\* the do-while with the oldest task popped and not waited for
drain_unwaited(k) ==
    /\ pc = "stage"
    /\ k \in DOMAIN boards
    /\ boards[k].spc = "drain"
    /\ boards' = [boards EXCEPT
           ![k].work = Tail(boards[k].work),
           ![k].spc = IF 2 * opts.hw < Len(boards[k].work) - 1 THEN "drain" ELSE "fanout"]
    /\ UNCHANGED << pieces, opts, plan, pc, gen, stores, m, out, found >>

\* the do-while: wait for the oldest task, pop it, until the list is short
drain(k) ==
    /\ pc = "stage"
    /\ k \in DOMAIN boards
    /\ boards[k].spc = "drain"
    /\ boards[Head(boards[k].work)].spc = "returned"
    /\ boards' = [boards EXCEPT
           ![k].work = Tail(boards[k].work),
           ![k].spc = IF min_workers(opts.hw) < Len(boards[k].work) - 1 THEN "drain" ELSE "fanout"]
    /\ UNCHANGED << pieces, opts, plan, pc, gen, stores, m, out, found >>

\* the sum taken without waiting for the tasks still in the list
join_early(k) ==
    /\ pc = "stage"
    /\ k \in DOMAIN boards
    /\ boards[k].spc = "join"
    /\ boards' = [boards EXCEPT
           ![k].b.solutions = boards[k].b.solutions + SumSolutions(boards, boards[k].kids),
           ![k].spc = "returned"]
    /\ UNCHANGED << pieces, opts, plan, pc, gen, stores, m, out, found >>

\* wait for completion, one task at a time; then sum the counters
join(k) ==
    /\ pc = "stage"
    /\ k \in DOMAIN boards
    /\ boards[k].spc = "join"
    /\ LET o == boards[k]
       IN  IF o.j < Len(o.work)
           THEN /\ boards[o.work[o.j + 1]].spc = "returned"
                /\ boards' = [boards EXCEPT ![k].j = o.j + 1]
           ELSE boards' = [boards EXCEPT
                    ![k].b.solutions = o.b.solutions + SumSolutions(boards, o.kids),
                    ![k].spc = "returned"]
    /\ UNCHANGED << pieces, opts, plan, pc, gen, stores, m, out, found >>

(***************************************************************************)
(* verticalBoard::solve and horizontalBoard::solve.                        *)
(***************************************************************************)

\* solve() with the copies made before any board type is set
compose_untyped(k) ==
    /\ pc = "stage"
    /\ k \in DOMAIN boards
    /\ boards[k].spc = "idle"
    /\ boards[k].b.kind # "board"
    /\ LET o == boards[k]
           n == Len(boards)
           copies == [i \in 1..Len(ComposeTypes) |->
                        [BoardObject(CopyBoard(o.b), k) EXCEPT !.spc = "copy"]]
       IN  boards' = [boards EXCEPT
                         ![k].b = SetType(o.b, ComposeTypes[Len(ComposeTypes)]),
                         ![k].kids = [i \in 1..Len(ComposeTypes) |-> n + i],
                         ![k].spc = "launch"] \o copies
    /\ UNCHANGED << pieces, opts, plan, pc, gen, stores, m, out, found >>

\* solve() is entered: a copy of the board per board type
compose(k) ==
    /\ pc = "stage"
    /\ k \in DOMAIN boards
    /\ boards[k].spc = "idle"
    /\ boards[k].b.kind # "board"
    /\ LET o == boards[k]
           n == Len(boards)
           copies == [i \in 1..Len(ComposeTypes) |->
                        [BoardObject(CopyBoard(SetType(o.b, ComposeTypes[i])), k)
                            EXCEPT !.spc = "copy"]]
       IN  boards' = [boards EXCEPT
                         ![k].b = SetType(o.b, ComposeTypes[Len(ComposeTypes)]),
                         ![k].kids = [i \in 1..Len(ComposeTypes) |-> n + i],
                         ![k].spc = "launch"] \o copies
    /\ UNCHANGED << pieces, opts, plan, pc, gen, stores, m, out, found >>

\* the next copy runs solve_for on its first placement with an empty mask:
\* called in turn, or, threaded, every one launched at once
launch(k) ==
    /\ pc = "stage"
    /\ k \in DOMAIN boards
    /\ boards[k].spc = "launch"
    /\ LET o == boards[k]
           kid == o.kids[o.j + 1]
       IN  IF o.j < Len(o.kids)
           THEN /\ IF o.b.threaded \/ o.j = 0 THEN TRUE
                   ELSE boards[o.kids[o.j]].spc = "returned"
                /\ boards' = [boards EXCEPT
                       ![k].j = o.j + 1,
                       ![k].work = IF o.b.threaded THEN Append(o.work, kid) ELSE o.work,
                       ![kid] = Call(boards[kid], boards[kid].b, 0, {})]
           ELSE IF o.b.threaded
           THEN boards' = [boards EXCEPT ![k].spc = "wait", ![k].j = 0]
           ELSE /\ boards[o.kids[o.j]].spc = "returned"
                /\ boards' = [boards EXCEPT ![k].spc = "returned"]
    /\ UNCHANGED << pieces, opts, plan, pc, gen, stores, m, out, found >>

\* threaded: wait for completion, one task at a time
wait(k) ==
    /\ pc = "stage"
    /\ k \in DOMAIN boards
    /\ boards[k].spc = "wait"
    /\ LET o == boards[k]
       IN  IF o.j < Len(o.work)
           THEN /\ boards[o.work[o.j + 1]].spc = "returned"
                /\ boards' = [boards EXCEPT ![k].j = o.j + 1]
           ELSE boards' = [boards EXCEPT ![k].spc = "returned"]
    /\ UNCHANGED << pieces, opts, plan, pc, gen, stores, m, out, found >>

(***************************************************************************)
(* The calls taken whole: solve_for from its entry to its return, and the  *)
(* solve() of a board or of a pre-composition board that is not threaded   *)
(* and does not print.  acc carries what the call changes: b, the board    *)
(* with its counter, and out, the store that complete() inserts into.      *)
(***************************************************************************)

RECURSIVE SolveFor(_, _, _)
RECURSIVE SolveForLoop(_, _, _, _)
RECURSIVE SolveForBody(_, _, _)

\* solve_for( p, mask ): the array is looked up on entry, the loop runs from
\* its last tile down to its first
SolveFor(acc, p, mask) ==
    LET f == Frame(acc.b, p, mask)
    IN  SolveForLoop(acc, f, f.i, 1)

\* the iterations hi down to lo of the loop of frame f
SolveForLoop(acc, f, hi, lo) ==
    IF hi < lo THEN acc
    ELSE IF hi = lo THEN SolveForBody(acc, f, hi)
    ELSE LET mid == (hi + lo) \div 2
             upper == SolveForLoop(acc, f, hi, mid + 1)
         IN  \* the test computes upper first; a counter is never negative
             IF upper.b.solutions < 0 THEN upper
             ELSE SolveForLoop(upper, f, mid, lo)

\* iteration i: pass over a tile with a piece in use; else place it and solve
\* the next placement, or complete() when there is none
SolveForBody(acc, f, i) ==
    LET b == acc.b
        t == Candidate(b, f, i)
        placed == Place(b, f.p, CandidatePtr(b, f, i), t)
        next == NextOf(b, f.p)
    IN  IF MaskShares(f.mask, t.mask) THEN acc
        ELSE IF next # Null
        THEN SolveFor([acc EXCEPT !.b = placed], next, MaskCombine(f.mask, t.mask))
        ELSE IF b.kind = "board"
        THEN [acc EXCEPT !.b = complete(placed)]
        ELSE [b |-> placed,
              out |-> Insert(OutputClass(b), acc.out,
                             IF b.kind = "vertical" THEN verticalComplete(placed)
                             ELSE horizontalComplete(placed))]

\* board::solve(), not threaded: solve_for on the first placement, empty mask
solve_all(k) ==
    /\ pc = "stage"
    /\ k \in DOMAIN boards
    /\ boards[k].spc = "idle"
    /\ boards[k].b.kind = "board"
    /\ ~boards[k].b.threaded
    /\ ~boards[k].b.print
    /\ \A j \in 1..(k - 1) : boards[j].spc = "returned"
    /\ boards' = [boards EXCEPT
           ![k].b = SolveFor([b |-> boards[k].b, out |-> EmptyStore], 0, {}).b,
           ![k].spc = "returned"]
    /\ UNCHANGED << pieces, opts, plan, pc, gen, stores, m, out, found >>

\* the copies of a pre-composition board from the i-th board type on, solved
\* in turn; every one inserts into the same output store
RECURSIVE ComposeFrom(_, _, _)
ComposeFrom(b, output, i) ==
    IF Len(ComposeTypes) < i THEN output
    ELSE LET done == SolveFor([b |-> SetType(b, ComposeTypes[i]), out |-> output], 0, {})
         IN  IF done.b.solutions < 0 THEN output
             ELSE ComposeFrom(b, done.out, i + 1)

\* verticalBoard::solve() or horizontalBoard::solve(), not threaded
compose_all(k) ==
    /\ pc = "stage"
    /\ k \in DOMAIN boards
    /\ boards[k].spc = "idle"
    /\ boards[k].b.kind # "board"
    /\ ~boards[k].b.threaded
    /\ stores' = [stores EXCEPT ![boards[k].b.output] =
                      ComposeFrom(boards[k].b, stores[boards[k].b.output], 1)]
    /\ boards' = [boards EXCEPT
           ![k].b = SetType(boards[k].b, ComposeTypes[Len(ComposeTypes)]),
           ![k].spc = "returned"]
    /\ UNCHANGED << pieces, opts, plan, pc, gen, m, out, found >>

(***************************************************************************)
(* The run: generate the 1x1 store, then the stages of the plan in order.  *)
(* A stage is a pre-composition, the solve of one board (board.cpp), or    *)
(* the driver's choice of boards with solve_boards (main.cpp).             *)
(***************************************************************************)

\* the stores of a run; 2x2_t is the second 2x2 store of board.cpp, the one
\* fused from 1x2 tiles
StoreNames == {"1x1", "1x2", "2x1", "2x2", "2x2_t"}

\* the tile class of a store in the edge namespace chosen for the pieces
ClassOf(name) ==
    TileClass(opts.eb,
              IF name \in {"2x1", "2x2", "2x2_t"} THEN 2 ELSE 1,
              IF name \in {"1x2", "2x2", "2x2_t"} THEN 2 ELSE 1)

Stage(op, kind, input, output, w, h, threaded) ==
    [op |-> op, kind |-> kind, input |-> input, output |-> output,
     w |-> w, h |-> h, threaded |-> threaded]

ComposeStage(kind, input, output, threaded) ==
    Stage("compose", kind, input, output, 0, 0, threaded)
SolveStage(w, h, input, threaded) == Stage("solve", "board", input, "", w, h, threaded)
DriverStage == Stage("driver", "board", "", "", 0, 0, FALSE)

\* solve_for_tile_array_lookups: the stores the request asks for, then the boards
DriverPlan(o) ==
    LET len_max == Max(o.bw, o.bh)
        len_min == Min(o.bw, o.bh)
        square == len_max = len_min
        need_2 == 4 <= len_max /\ len_max % 2 = 0 /\ 2 <= o.useTileSize
        need_4 == need_2 /\ 4 <= len_min /\ len_min % 2 = 0 /\ 4 <= o.useTileSize
    IN  (IF need_2 THEN << ComposeStage("vertical", "1x1", "1x2", o.threaded) >> ELSE << >>)
        \o (IF need_2 /\ ~need_4 /\ ~square
            THEN << ComposeStage("horizontal", "1x1", "2x1", o.threaded) >> ELSE << >>)
        \o (IF need_4 THEN << ComposeStage("horizontal", "1x2", "2x2", o.threaded) >> ELSE << >>)
        \o << DriverStage >>

\* pieceVector::generateLookups, one piece per step, written into the 1x1 store
generate ==
    /\ pc = "generate"
    /\ IF gen.pieceNum < Len(pieces)
       THEN LET g == GenerateOne(ClassOf("1x1"),
                         [lookup |-> stores["1x1"], corners |-> gen.corners,
                          pieceNum |-> gen.pieceNum],
                         pieces[gen.pieceNum + 1])
            IN  /\ stores' = [stores EXCEPT !["1x1"] = g.lookup]
                /\ gen' = [corners |-> g.corners, pieceNum |-> g.pieceNum]
                /\ pc' = pc
       ELSE /\ pc' = "run"
            /\ UNCHANGED << stores, gen >>
    /\ UNCHANGED << pieces, opts, plan, boards, m, out, found >>

\* solve_boards: setPrint, setQuit, setThreaded, setType on a board
Configure(b) ==
    SetType([b EXCEPT !.print = opts.print, !.quit = opts.quit,
                      !.threaded = opts.threaded], opts.type)

\* the first board alone, of 1x1 tiles
DriverBoardsOne ==
    << BoardObject(Configure(NewBoard(ClassOf("1x1"), Min(opts.bw, opts.bh),
                                      Max(opts.bw, opts.bh), "1x1")), 0) >>

\* the boards the driver builds: of the largest tiles it has a store of, len_min
\* by len_max and, when the request is not square, len_max by len_min
DriverBoards ==
    LET len_max == Max(opts.bw, opts.bh)
        len_min == Min(opts.bw, opts.bh)
        first == IF Tiles(stores["2x2"]) # 0
                 THEN NewBoard(ClassOf("2x2"), len_min \div 2, len_max \div 2, "2x2")
                 ELSE IF Tiles(stores["1x2"]) # 0
                 THEN NewBoard(ClassOf("1x2"), len_min, len_max \div 2, "1x2")
                 ELSE NewBoard(ClassOf("1x1"), len_min, len_max, "1x1")
        second == IF Tiles(stores["2x2"]) # 0
                  THEN NewBoard(ClassOf("2x2"), len_max \div 2, len_min \div 2, "2x2")
                  ELSE IF Tiles(stores["1x2"]) # 0
                  THEN NewBoard(ClassOf("2x1"), len_max \div 2, len_min, "2x1")
                  ELSE NewBoard(ClassOf("1x1"), len_max, len_min, "1x1")
    IN  IF len_max = len_min THEN << BoardObject(Configure(first), 0) >>
        ELSE << BoardObject(Configure(first), 0), BoardObject(Configure(second), 0) >>

\* the objects a stage starts with
StageBoards(st) ==
    IF st.op = "driver" THEN DriverBoards
    ELSE IF st.op = "solve"
    THEN << BoardObject([Configure(NewBoard(ClassOf(st.input), st.w, st.h, st.input))
                            EXCEPT !.threaded = st.threaded], 0) >>
    ELSE << BoardObject([NewBoard(ClassOf(st.input),
                                  IF st.kind = "vertical" THEN 1 ELSE 2,
                                  IF st.kind = "vertical" THEN 2 ELSE 1,
                                  st.input)
                            EXCEPT !.kind = st.kind, !.output = st.output,
                                   !.threaded = st.threaded], 0) >>

\* the next stage begins: its boards are constructed
start ==
    /\ pc = "run"
    /\ Head(plan).op # "randomize"
    /\ boards' = StageBoards(Head(plan))
    /\ pc' = "stage"
    /\ UNCHANGED << pieces, opts, plan, gen, stores, m, out, found >>

\* the stage is over when every solve() has returned; a solve reports the sum
\* of the counters of its boards
finish ==
    /\ pc = "stage"
    /\ \A k \in DOMAIN boards : boards[k].spc = "returned"
    /\ found' = IF Head(plan).op = "compose" THEN found
                ELSE Append(found, SumSolutions(boards, TopBoards))
    /\ plan' = Tail(plan)
    /\ pc' = IF Tail(plan) = << >> THEN "done" ELSE "run"
    /\ UNCHANGED << pieces, opts, gen, stores, boards, m, out >>

(***************************************************************************)
(* Requests.  The pieces of a request are cut from a filled w by h grid:   *)
(* every shared side gets an edge value, every outer side is 0 where the   *)
(* board type has a border and 1 where it has none.  The file lists them   *)
(* column by column, the n-th turned n quarter turns; the first pieces may *)
(* come a second time at the end of the file.                              *)
(***************************************************************************)

MaxEdge == 2
MaxWidth == 2
MaxHeight == 3
MaxExtra == 1
MaxHw == 1

Types ==
    { typeNormal, typeTopLeftCorner, typeTopEdge, typeTopRightCorner, typeLeftEdge,
      typeMiddle, typeRightEdge, typeBottomLeftCorner, typeBottomEdge,
      typeBottomRightCorner }

\* the number of shared sides of a w by h grid
SharedSides(w, h) == (w - 1) * h + w * (h - 1)

\* the outer edge on a side of the grid for a board type
Outer(type, side) == IF BitAnd(side, type) # 0 THEN 0 ELSE 1

\* the piece of cell (x, y), e giving the edge of every shared side
CutPiece(w, h, type, e, x, y) ==
    Piece(IF x = 0 THEN Outer(type, LEFT_BORDER) ELSE e[(x - 1) * h + y + 1],
          IF y = 0 THEN Outer(type, TOP_BORDER)
          ELSE e[(w - 1) * h + x * (h - 1) + y],
          IF x = w - 1 THEN Outer(type, RIGHT_BORDER) ELSE e[x * h + y + 1],
          IF y = h - 1 THEN Outer(type, BOTTOM_BORDER)
          ELSE e[(w - 1) * h + x * (h - 1) + y + 1])

\* a piece turned n quarter turns
RECURSIVE Turn(_, _)
Turn(p, n) ==
    IF n = 0 THEN p ELSE Turn(Piece(p.bottom, p.left, p.top, p.right), n - 1)

CutPieces(w, h, type, e, extra) ==
    LET cut == [n \in 1..(w * h) |->
                   Turn(CutPiece(w, h, type, e, (n - 1) \div h, (n - 1) % h), (n - 1) % 4)]
    IN  cut \o SubSeq(cut, 1, extra)

\* the state a run starts in
Start(ps, o, pl) ==
    /\ pieces = ps
    /\ opts = [o EXCEPT !.eb = EdgeBits(ps), !.mask = MaskType(o.env, Len(ps))]
    /\ plan = pl
    /\ pc = "generate"
    /\ gen = [corners |-> 0, pieceNum |-> 0]
    /\ stores = [n \in StoreNames |-> EmptyStore]
    /\ boards = << >>
    /\ m = 0
    /\ out = << >>
    /\ found = << >>

Options(bw, bh, type, threaded, hw) ==
    [bw |-> bw, bh |-> bh, type |-> type, threaded |-> threaded, hw |-> hw,
     print |-> FALSE, quit |-> FALSE, useTileSize |-> 1, eb |-> 0,
     env |-> 64, mask |-> ""]

\* the driver on a cut request, not threaded; the board types other than
\* normal on boards of two rows
Init ==
    \E w \in 2..MaxWidth, h \in 2..MaxHeight, type \in Types, extra \in 0..MaxExtra :
        \E e \in [1..SharedSides(w, h) -> 0..MaxEdge] :
            /\ type = typeNormal \/ h = 2
            /\ Start(CutPieces(w, h, type, e, extra),
                     Options(w, h, type, FALSE, 0),
                     DriverPlan(Options(w, h, type, FALSE, 0)))

Next ==
    \/ generate
    \/ start
    \/ finish
    \/ \E k \in DOMAIN boards : solve(k)
    \/ \E k \in DOMAIN boards : solve_for(k)

Spec == Init /\ [][Next]_vars

(***************************************************************************)
(* The same board solved twice, as board.cpp does: solve() with threaded   *)
(* off, then solve() on a new board with threaded on.  The tasks of the    *)
(* threaded solve take their steps in any order.                           *)
(***************************************************************************)

ThreadsPlan(w, h) == << SolveStage(w, h, "1x1", FALSE), SolveStage(w, h, "1x1", TRUE) >>

\* cut 2 by 2 requests of the board types with a border on the left or on top,
\* hardware_concurrency() from 0 up
ThreadsInit ==
    \E type \in Types, hw \in 0..MaxHw :
        \E e \in [1..SharedSides(2, 2) -> 0..MaxEdge] :
            /\ BitAnd(type, LEFT_BORDER + TOP_BORDER) # 0
            /\ Start(CutPieces(2, 2, type, e, 0), Options(2, 2, type, FALSE, hw),
                     ThreadsPlan(2, 2))

ThreadsNext ==
    \/ generate
    \/ start
    \/ finish
    \/ \E k \in DOMAIN boards : solve(k)
    \/ \E k \in DOMAIN boards : solve_for(k)
    \/ \E k \in DOMAIN boards : fanout(k)
    \/ \E k \in DOMAIN boards : drain(k)
    \/ \E k \in DOMAIN boards : join(k)

SpecThreads == ThreadsInit /\ [][ThreadsNext]_vars

(***************************************************************************)
(* test_board_impl (board.cpp), the calls with threaded off: the board is  *)
(* solved with 1x1 tiles, then each larger store is built and the board is *)
(* solved with its tiles.  board.cpp runs it on the 16 pieces of           *)
(* test_board, on 4 by 4.  Next to it, the driver run twice on a cut 2 by  *)
(* 4 or 4 by 2 request, first with 1x1 tiles and then with --u2.           *)
(***************************************************************************)

\* the 16 piece puzzle of test_board
CanonicalPieces ==
    << Piece(0, 0, 1, 2), Piece(1, 0, 2, 3), Piece(2, 0, 1, 3), Piece(1, 0, 0, 1),
       Piece(0, 2, 3, 2), Piece(3, 3, 4, 4), Piece(4, 3, 3, 3), Piece(3, 1, 0, 1),
       Piece(0, 2, 4, 2), Piece(4, 4, 3, 4), Piece(3, 3, 4, 4), Piece(4, 1, 0, 2),
       Piece(0, 2, 1, 0), Piece(1, 4, 1, 0), Piece(1, 4, 2, 0), Piece(2, 2, 0, 0) >>

\* the numbers test_board_impl asserts
Solutions4x4 == 640
Tiles1x1 == 58
Tiles1x2 == 316
Tiles2x1 == 316
Tiles2x2 == 3472

\* the stages of test_board_impl( w, h, pieces ) up to the first 2x2 store
HarnessPlan(w, h) ==
    << SolveStage(w, h, "1x1", FALSE),
       ComposeStage("vertical", "1x1", "1x2", FALSE),
       SolveStage(w, h \div 2, "1x2", FALSE),
       ComposeStage("horizontal", "1x1", "2x1", FALSE),
       SolveStage(w \div 2, h, "2x1", FALSE),
       ComposeStage("vertical", "2x1", "2x2", FALSE),
       SolveStage(w \div 2, h \div 2, "2x2", FALSE) >>

\* the driver with 1x1 tiles, then with --u2
TwoRunsPlan(o) == DriverPlan(o) \o DriverPlan([o EXCEPT !.useTileSize = 2])

\* edge values that do not decrease from one shared side to the next
Rising(e) == \A i \in DOMAIN e : \A j \in DOMAIN e : i < j => e[i] <= e[j]

ChainInit ==
    \/ Start(CanonicalPieces, Options(4, 4, typeNormal, FALSE, 0), HarnessPlan(4, 4))
    \/ \E w \in {2, 4}, extra \in 0..MaxExtra :
           \E e \in [1..SharedSides(w, 6 - w) -> 1..MaxEdge] :
               /\ Rising(e)
               /\ Start(CutPieces(w, 6 - w, typeNormal, e, extra),
                        Options(w, 6 - w, typeNormal, FALSE, 0),
                        TwoRunsPlan(Options(w, 6 - w, typeNormal, FALSE, 0)))

ChainNext ==
    \/ generate
    \/ start
    \/ finish
    \/ \E k \in DOMAIN boards : solve_all(k)
    \/ \E k \in DOMAIN boards : compose_all(k)

SpecChain == ChainInit /\ [][ChainNext]_vars

(***************************************************************************)
(* The two 2x2 stores of test_board_impl: lookups_2x2, 2x1 tiles fused by  *)
(* a vertical board, and lookups_2x2_t, 1x2 tiles fused by a horizontal    *)
(* board, each followed by the solve of the board with its tiles.  On the  *)
(* 16 pieces of test_board, and on the pieces of cut 2 by 2 requests of    *)
(* every board type.                                                       *)
(***************************************************************************)

FusePlan(w, h) ==
    << ComposeStage("vertical", "1x1", "1x2", FALSE),
       ComposeStage("horizontal", "1x1", "2x1", FALSE),
       ComposeStage("vertical", "2x1", "2x2", FALSE),
       SolveStage(w \div 2, h \div 2, "2x2", FALSE),
       ComposeStage("horizontal", "1x2", "2x2_t", FALSE),
       SolveStage(w \div 2, h \div 2, "2x2_t", FALSE) >>

FuseInit ==
    \/ Start(CanonicalPieces, Options(4, 4, typeNormal, FALSE, 0), FusePlan(4, 4))
    \/ \E type \in Types :
           \E e \in [1..SharedSides(2, 2) -> 1..MaxEdge] :
               /\ Rising(e)
               /\ Start(CutPieces(2, 2, type, e, 0),
                        Options(4, 4, typeNormal, FALSE, 0), FusePlan(4, 4))

SpecFuse == FuseInit /\ [][ChainNext]_vars

(***************************************************************************)
(* Pre-composition step by step: the 1x2 store fused from the 1x1 tiles,   *)
(* the 2x1 store, and the 2x2 store fused from the 2x1 tiles, on the       *)
(* pieces of cut 2 by 2 requests of every board type.  The copies of a     *)
(* pre-composition board are solved in turn.                               *)
(***************************************************************************)

ComposePlan ==
    << ComposeStage("vertical", "1x1", "1x2", FALSE),
       ComposeStage("horizontal", "1x1", "2x1", FALSE),
       ComposeStage("vertical", "2x1", "2x2", FALSE) >>

ComposeInit ==
    \E type \in Types :
        \E e \in [1..SharedSides(2, 2) -> 0..MaxEdge] :
            Start(CutPieces(2, 2, type, e, 0), Options(4, 4, typeNormal, FALSE, 0),
                  ComposePlan)

ComposeNext ==
    \/ generate
    \/ start
    \/ finish
    \/ \E k \in DOMAIN boards : compose(k)
    \/ \E k \in DOMAIN boards : launch(k)
    \/ \E k \in DOMAIN boards : solve_for(k)
    \/ \E k \in DOMAIN boards : insert_return(k)

SpecCompose == ComposeInit /\ [][ComposeNext]_vars

(***************************************************************************)
(* The driver with -q, with and without -p, on cut 2 by 2 requests.        *)
(***************************************************************************)

QuitInit ==
    \E type \in Types, print \in BOOLEAN :
        \E e \in [1..SharedSides(2, 2) -> 0..MaxEdge] :
            Start(CutPieces(2, 2, type, e, 0),
                  [Options(2, 2, type, FALSE, 0) EXCEPT !.print = print, !.quit = TRUE],
                  DriverPlan(Options(2, 2, type, FALSE, 0)))

SpecQuit == QuitInit /\ [][Next]_vars

(***************************************************************************)
(* main from the loaded pieces on: the mask typedef is chosen by the       *)
(* number of pieces, solve_for_mask chooses the edge namespace, and the    *)
(* driver runs; or a message is printed and main returns.  The requests    *)
(* are 2 by 2 boards of type normal with n pieces, every edge of every     *)
(* piece the same value, in a 32 bit and in a 64 bit build.                *)
(***************************************************************************)

main ==
    /\ pc = "main"
    /\ LET type == MaskType(opts.env, Len(pieces))
       IN  IF type = ""
           THEN /\ out' = Append(out, "too many pieces!")
                /\ pc' = "exited"
                /\ opts' = opts
           ELSE IF EdgeBits(pieces) = 0
           THEN /\ out' = Append(out, "too many edges!")
                /\ pc' = "exited"
                /\ opts' = opts
           ELSE /\ opts' = [opts EXCEPT !.eb = EdgeBits(pieces), !.mask = type]
                /\ pc' = "generate"
                /\ out' = out
    /\ UNCHANGED << pieces, plan, gen, stores, boards, m, found >>

\* the piece counts and the highest edge values of the requests
PieceCounts == {4, 32, 33, 64, 65, 128, 129, 256, 257, 512, 513}
HighestEdges == {1, 6, 7, 8, 14, 15, 16, 30, 31, 32}

SelectInit ==
    \E n \in PieceCounts, e \in HighestEdges, env \in {32, 64} :
        /\ n = 4 \/ e = 1 \/ (n \in {257, 513} /\ e = 32)
        /\ pieces = [i \in 1..n |-> Piece(e, e, e, e)]
        /\ opts = [Options(2, 2, typeNormal, FALSE, 0) EXCEPT !.env = env]
        /\ plan = DriverPlan(Options(2, 2, typeNormal, FALSE, 0))
        /\ pc = "main"
        /\ gen = [corners |-> 0, pieceNum |-> 0]
        /\ stores = [name \in StoreNames |-> EmptyStore]
        /\ boards = << >>
        /\ m = 0
        /\ out = << >>
        /\ found = << >>

SelectNext == main \/ Next

SpecSelect == SelectInit /\ [][SelectNext]_vars

(***************************************************************************)
(* randomize(): every tile of the store gets a random word, and every      *)
(* array is sorted by the words of its tiles.  The words come from a       *)
(* generator of two parameters; std::sort leaves the order of tiles with   *)
(* equal words open, here the lower or the higher pointer first.           *)
(***************************************************************************)

MaxRandom == 2

\* the random words of n tiles
RandomWords(n, a, k) == [i \in 1..n |-> (a * i + k) % (MaxRandom + 1)]

\* sortTilesByRandom, with the order of equal words
RandomLess(random, tie, x, y) ==
    \/ random[x] < random[y]
    \/ random[x] = random[y] /\ (IF tie = "low" THEN x < y ELSE y < x)

\* the array with one tile per random word
RECURSIVE SortByRandomUnique(_, _, _)
SortByRandomUnique(array, random, tie) ==
    IF array = << >> THEN << >>
    ELSE LET i == CHOOSE i \in 1..Len(array) :
                     \A j \in 1..Len(array) :
                         j = i \/ RandomLess(random, tie, array[i], array[j])
         IN  << array[i] >>
             \o SortByRandomUnique(SelectSeq(array, LAMBDA x : random[x] # random[array[i]]),
                                   random, tie)

\* std::sort( i.second.begin(), i.second.end(), sortTilesByRandom() )
RECURSIVE SortByRandom(_, _, _)
SortByRandom(array, random, tie) ==
    IF array = << >> THEN << >>
    ELSE LET i == CHOOSE i \in 1..Len(array) :
                     \A j \in 1..Len(array) :
                         j = i \/ RandomLess(random, tie, array[i], array[j])
         IN  << array[i] >>
             \o SortByRandom([n \in 1..(Len(array) - 1) |->
                                 IF n < i THEN array[n] ELSE array[n + 1]],
                             random, tie)

\* tileArrayLookup::randomize()
Randomize(store, a, k, tie) ==
    LET random == RandomWords(Len(store.tiles), a, k)
    IN  [store EXCEPT !.arrays = [v \in DOMAIN store.arrays |->
                                    SortByRandom(store.arrays[v], random, tie)]]

\* the stores the driver randomizes: those of the largest tiles it has
Randomized ==
    IF Tiles(stores["2x2"]) # 0 THEN {"2x2"}
    ELSE IF Tiles(stores["1x2"]) # 0 THEN {"1x2", "2x1"}
    ELSE {"1x1"}

RandomizeStage == Stage("randomize", "", "", "", 0, 0, FALSE)

\* solve_for_tile_array_lookups with -r, between the stores and the boards
randomize ==
    /\ pc = "run"
    /\ Head(plan).op = "randomize"
    /\ \E a1 \in 0..MaxRandom, k1 \in 0..MaxRandom, a2 \in 0..MaxRandom, k2 \in 0..MaxRandom,
          tie \in {"low", "high"} :
           stores' = [name \in StoreNames |->
                        IF name \notin Randomized THEN stores[name]
                        ELSE IF name = "2x1" THEN Randomize(stores[name], a2, k2, tie)
                        ELSE Randomize(stores[name], a1, k1, tie)]
    /\ plan' = Tail(plan)
    /\ UNCHANGED << pieces, opts, pc, gen, boards, m, out, found >>

\* the driver run without -r and then with -r; the second run builds the
\* stores the first one built
RandomPlan == << DriverStage, RandomizeStage, DriverStage >>

RandomInit ==
    \E type \in Types :
        \E e \in [1..SharedSides(2, 2) -> 0..MaxEdge] :
            Start(CutPieces(2, 2, type, e, 0), Options(2, 2, type, FALSE, 0), RandomPlan)

RandomNext == randomize \/ Next

SpecRandom == RandomInit /\ [][RandomNext]_vars

(***************************************************************************)
(* The threaded solve with -p: cut 2 by 2 requests of the board types left *)
(* edge and top edge, whose first cell has more than one candidate, every  *)
(* shared side carrying the same edge.                                     *)
(***************************************************************************)

PrintInit ==
    \E type \in {typeLeftEdge, typeTopEdge}, hw \in 0..MaxHw :
        \E c \in 1..MaxEdge :
            Start(CutPieces(2, 2, type, [i \in 1..SharedSides(2, 2) |-> c], 0),
                  [Options(2, 2, type, TRUE, hw) EXCEPT !.print = TRUE],
                  << SolveStage(2, 2, "1x1", TRUE) >>)

SpecPrint == PrintInit /\ [][ThreadsNext]_vars

(***************************************************************************)
(* The threaded solve with many candidates for the first cell: cut 1 by 2  *)
(* requests of the board type middle, every rotation of every piece a      *)
(* candidate, so that the list of launched tasks fills.                    *)
(***************************************************************************)

WindowInit ==
    \E hw \in 0..MaxHw, extra \in 0..MaxExtra :
        \E e \in [1..SharedSides(1, 2) -> 1..MaxEdge] :
            Start(CutPieces(1, 2, typeMiddle, e, extra),
                  Options(1, 2, typeMiddle, TRUE, hw),
                  << SolveStage(1, 2, "1x1", TRUE) >>)

SpecWindow == WindowInit /\ [][ThreadsNext]_vars

(***************************************************************************)
(* setType on its own: a new board of any size up to MaxSide and of any    *)
(* tile class, and setType called on it with any board type, any number of *)
(* times.                                                                  *)
(***************************************************************************)

MaxSide == 3

\* board::setType( value ) on the one board
setType ==
    /\ pc = "seed"
    /\ \E value \in Types :
           /\ boards' = [boards EXCEPT ![1].b = SetType(@, value)]
           /\ opts' = [opts EXCEPT !.type = value]
    /\ UNCHANGED << pieces, plan, pc, gen, stores, m, out, found >>

SeedInit ==
    \E w, h \in 1..MaxSide, eb \in {3, 4, 5}, cw, ch \in 1..2 :
        /\ pieces = << >>
        /\ opts = [Options(w, h, typeNormal, FALSE, 0) EXCEPT !.eb = eb]
        /\ plan = << >>
        /\ pc = "seed"
        /\ gen = [corners |-> 0, pieceNum |-> 0]
        /\ stores = [n \in StoreNames |-> EmptyStore]
        /\ boards = << BoardObject(NewBoard(TileClass(eb, cw, ch), w, h, "1x1"), 0) >>
        /\ m = 0
        /\ out = << >>
        /\ found = << >>

SpecSeed == SeedInit /\ [][setType]_vars

(***************************************************************************)
(* The stores of every edge namespace: cut 2 by 2 requests whose shared    *)
(* sides carry edge 1 or the highest edge of the request, the highest      *)
(* edges being those next to the limits of the namespaces; the 1x1 store   *)
(* and the four composed stores are built.                                 *)
(***************************************************************************)

TopEdges == {6, 7, 14, 15, 30}

EdgesInit ==
    \E type \in Types, top \in TopEdges :
        \E e \in [1..SharedSides(2, 2) -> {1, top}] :
            Start(CutPieces(2, 2, type, e, 0),
                  Options(4, 4, typeNormal, FALSE, 0), FusePlan(4, 4))

SpecEdges == EdgesInit /\ [][ChainNext]_vars

(***************************************************************************)
(* The threaded pre-composition: the 1x2 store fused from the 1x1 tiles of *)
(* a cut 1 by 2 request by the nine copies of a vertical board, every copy *)
(* a task, the tasks taking their steps in any order; then randomize and   *)
(* the solve of a board of one 1x2 tile.                                   *)
(***************************************************************************)

LockPlan ==
    << ComposeStage("vertical", "1x1", "1x2", TRUE), RandomizeStage,
       SolveStage(1, 1, "1x2", FALSE) >>

LockInit ==
    \E type \in Types :
        \E e \in [1..SharedSides(1, 2) -> 1..MaxEdge] :
            Start(CutPieces(1, 2, type, e, 0), Options(4, 4, typeNormal, TRUE, 0), LockPlan)

\* a call of solve_for about to fill the grid of a pre-composition board: its
\* next step is complete(), which asks for the lock of the output store
AtFill(k) ==
    /\ boards[k].spc = "solve_for"
    /\ boards[k].b.kind # "board"
    /\ NextOf(boards[k].b, Top(boards[k].stack).p) = Null
    /\ NextFree(boards[k].b, Top(boards[k].stack), Top(boards[k].stack).i) # 0

\* a call of solve_for whose next step touches its own board only
Local(k) == boards[k].spc = "solve_for" /\ ~AtFill(k)

\* The steps of a task on its own board commute with every step of another
\* task, so they are taken first: a task is launched, waited on, or let into
\* insert() when no task has a step of its own to take.  Every order in which
\* the tasks can reach, enter and leave insert() remains.
LockNext ==
    \/ generate
    \/ start
    \/ finish
    \/ randomize
    \/ \E k \in DOMAIN boards : solve(k)
    \/ \E k \in DOMAIN boards : compose(k)
    \/ \E k \in DOMAIN boards : Local(k) /\ solve_for(k)
    \/ /\ \A j \in DOMAIN boards : ~Local(j)
       /\ \/ \E k \in DOMAIN boards : launch(k)
          \/ \E k \in DOMAIN boards : wait(k)
          \/ \E k \in DOMAIN boards : AtFill(k) /\ solve_for(k)
    \/ \E k \in DOMAIN boards : insert_return(k)

SpecLock == LockInit /\ [][LockNext]_vars

(***************************************************************************)
(* What a solution is, said without the search: the assignments of store   *)
(* tiles to the cells of a board, built row by row.                        *)
(***************************************************************************)

\* whether a side is a border for a board type
IsBorder(type, side) == BitAnd(side, type) # 0

\* the board's store tile behind a pointer
StoreTile(b, ptr) == stores[b.lookups].tiles[ptr]

\* whether the tile behind ptr can go on cell n (row by row, from 0) after the
\* tiles of a: its edges equal the neighbours' on the shared sides, are 0 on the
\* border sides, and none of its pieces is in a; with nonzero, its edges on the
\* sides that are no border are not 0
Fits(b, type, nonzero, a, n, ptr) ==
    LET t == StoreTile(b, ptr)
        x == n % b.width
        y == n \div b.width
        open(v) == nonzero => v # 0
    IN  /\ IF 0 < x THEN StoreTile(b, a[n]).right = t.left /\ open(t.left)
           ELSE IF IsBorder(type, LEFT_BORDER) THEN t.left = 0 ELSE open(t.left)
        /\ IF 0 < y THEN StoreTile(b, a[n - b.width + 1]).bottom = t.top /\ open(t.top)
           ELSE IF IsBorder(type, TOP_BORDER) THEN t.top = 0 ELSE open(t.top)
        /\ IF x = b.width - 1 /\ IsBorder(type, RIGHT_BORDER) THEN t.right = 0
           ELSE open(t.right)
        /\ IF y = b.height - 1 /\ IsBorder(type, BOTTOM_BORDER) THEN t.bottom = 0
           ELSE open(t.bottom)
        /\ \A j \in 1..n : StoreTile(b, a[j]).mask \cap t.mask = {}

\* the assignments of the first n cells extended to the whole board
RECURSIVE Fill(_, _, _, _, _)
Fill(b, type, nonzero, S, n) ==
    IF n = b.width * b.height THEN S
    ELSE Fill(b, type, nonzero,
              UNION { { Append(a, ptr) :
                          ptr \in { q \in 1..Tiles(stores[b.lookups]) :
                                      Fits(b, type, nonzero, a, n, q) } } : a \in S },
              n + 1)

Assignments(b, type, nonzero) == Fill(b, type, nonzero, { << >> }, 0)

\* the boards of the driver that have returned from solve()
Solved == { k \in DOMAIN boards : boards[k].parent = 0 /\ boards[k].b.kind = "board"
                                  /\ boards[k].spc = "returned" }

\* C1 as the spec words it: once solve() has returned, the counter of the board
\* is the number of assignments of store tiles to its cells with equal edges on
\* the shared sides, 0 on the border sides and no piece used twice
C1_CountsMatchingAssignments ==
    pc = "done" =>
        \A k \in Solved :
            boards[k].b.solutions = Cardinality(Assignments(boards[k].b, opts.type, FALSE))

\* C1, amended: once solve() has returned, the counter of the board is the number
\* of assignments of store tiles to its cells with equal edges on the shared
\* sides, 0 on the border sides, an edge other than 0 on every other side, and no
\* piece used twice; it is 0 when there is none
C1_CountsNonzeroAssignments ==
    pc = "done" =>
        \A k \in Solved :
            boards[k].b.solutions = Cardinality(Assignments(boards[k].b, opts.type, TRUE))

\* C1, the case: a solve has returned with solutions counted
C1_Counted ==
    /\ pc = "done"
    /\ \E k \in Solved : 0 < boards[k].b.solutions
    /\ \E k \in Solved : Assignments(boards[k].b, opts.type, TRUE) # {}

\* a step of solve_for on board k that counts a solution
Counts(k) ==
    /\ k \in DOMAIN boards
    /\ boards[k].spc = "solve_for"
    /\ boards'[k].b.solutions = boards[k].b.solutions + 1

\* the tiles on the cells of a board: equal edges on every shared side, and 0 on
\* every side that is a border for the type
EdgesMatch(b, type) ==
    \A p \in Placements(b) :
        LET t == StoreTile(b, b.tile[p])
        IN  /\ RightOf(b, p) # Junk => t.right = StoreTile(b, b.tile[RightOf(b, p)]).left
            /\ BottomOf(b, p) # Junk => t.bottom = StoreTile(b, b.tile[BottomOf(b, p)]).top
            /\ (XOf(b, p) = 0 /\ IsBorder(type, LEFT_BORDER)) => t.left = 0
            /\ (YOf(b, p) = 0 /\ IsBorder(type, TOP_BORDER)) => t.top = 0
            /\ (XOf(b, p) = b.width - 1 /\ IsBorder(type, RIGHT_BORDER)) => t.right = 0
            /\ (YOf(b, p) = b.height - 1 /\ IsBorder(type, BOTTOM_BORDER)) => t.bottom = 0

\* C2: whenever the solver counts a solution, the tiles on the board have equal
\* edges on every side two cells share, and an edge of 0 on every side that is a
\* border for the board type
C2_CountedSolutionsMatch ==
    [][\A k \in DOMAIN boards : Counts(k) => EdgesMatch(boards'[k].b, opts.type)]_vars

\* C2, the case: a solution was counted on a board of three rows, and its tiles
\* are still on the board
C2_SolutionOnBoard ==
    \E k \in DOMAIN boards :
        /\ 0 < boards[k].b.solutions
        /\ boards[k].b.height = 3
        /\ \A p \in Placements(boards[k].b) : boards[k].b.tile[p] # 0
        /\ EdgesMatch(boards[k].b, opts.type)

\* the pieces of the tiles on the cells of a board
Occupied(b) == UNION { StoreTile(b, b.tile[p]).mask : p \in Placements(b) }

\* C3 as the spec words it: whenever the solver counts a solution, the masks of
\* the tiles on the board together are the pieces 0 to N - 1, N the number of
\* input pieces
C3_AllPiecesUsed ==
    [][\A k \in DOMAIN boards :
          Counts(k) => Occupied(boards'[k].b) = 0..(Len(pieces) - 1)]_vars

\* C3, amended: whenever the solver counts a solution, the masks of the tiles on
\* the board together hold one input piece per cell, that is W x H of the pieces
\* 0 to N - 1; they are all N pieces when N = W x H
C3_OnePiecePerCell ==
    [][\A k \in DOMAIN boards :
          Counts(k) =>
              /\ Occupied(boards'[k].b) \subseteq 0..(Len(pieces) - 1)
              /\ Cardinality(Occupied(boards'[k].b))
                     = boards[k].b.width * boards[k].b.height
                       * boards[k].b.cls.cw * boards[k].b.cls.ch]_vars

\* C3, the case: a solution was counted for a request with more pieces than cells
C3_SparePiece ==
    \E k \in DOMAIN boards :
        /\ 0 < boards[k].b.solutions
        /\ boards[k].b.width * boards[k].b.height < Len(pieces)

\* the masks of the tiles on the cells before placement p of a board
MasksBefore(b, p) == [q \in 0..(p - 1) |-> StoreTile(b, b.tile[q]).mask]

\* C4: along the search path no piece is on two cells: at every call of
\* solve_for the masks of the tiles on the cells before its placement are
\* pairwise disjoint and the call's mask is their union, and the tile the call
\* has placed shares no piece with that mask (a candidate that does is passed
\* over)
C4_PlacedDisjoint ==
    \A k \in DOMAIN boards :
        \A d \in DOMAIN boards[k].stack :
            LET f == boards[k].stack[d]
                ms == MasksBefore(boards[k].b, f.p)
            IN  /\ \A q, r \in DOMAIN ms : q # r => ms[q] \cap ms[r] = {}
                /\ f.mask = UNION { ms[q] : q \in DOMAIN ms }
                /\ d < Len(boards[k].stack) =>
                       StoreTile(boards[k].b, boards[k].b.tile[f.p]).mask \cap f.mask = {}

\* C4, the case: a call of solve_for on the last cell of a board, a candidate of
\* which shares a piece with the tiles placed
C4_CandidateInUse ==
    \E k \in DOMAIN boards :
        /\ boards[k].stack # << >>
        /\ LET f == Top(boards[k].stack)
           IN  /\ NextOf(boards[k].b, f.p) = Null
               /\ 0 < f.i
               /\ MaskShares(f.mask, Candidate(boards[k].b, f, f.i).mask)

\* whether a piece has a rotation with left = 0 and top = 0
IsCorner(p) ==
    \/ p.left = 0 /\ p.top = 0
    \/ p.top = 0 /\ p.right = 0
    \/ p.right = 0 /\ p.bottom = 0
    \/ p.bottom = 0 /\ p.left = 0

\* whether piece n is the first corner piece of the file
IsFirstCorner(n) == IsCorner(pieces[n]) /\ \A j \in 1..(n - 1) : ~IsCorner(pieces[j])

\* the tiles of the 1x1 store that piece n contributed, in store order
Contributed(n) == SelectSeq(stores["1x1"].tiles, LAMBDA t : t.mask = {n - 1})

\* the rotations of piece n in sort order
Sorted(n) == SortTiles(ClassOf("1x1"), Rotations(ClassOf("1x1"), pieces[n], n - 1))

IsTopLeft(t) == t.left = 0 /\ t.top = 0

\* C10 as the spec words it: while the 1x1 store is generated and when it is
\* done, of the pieces read so far the first corner piece of the file has
\* contributed one tile, a rotation with left = 0 and top = 0, and every later
\* corner piece the three other rotations, none of them with left = 0 and top = 0
C10_LaterCornersLackTopLeft ==
    \A n \in 1..(IF pc \in {"generate", "run"} THEN gen.pieceNum ELSE 0) :
        IsCorner(pieces[n]) =>
            IF IsFirstCorner(n)
            THEN Len(Contributed(n)) = 1 /\ IsTopLeft(Contributed(n)[1])
            ELSE /\ Len(Contributed(n)) = 3
                 /\ \A i \in 1..3 : ~IsTopLeft(Contributed(n)[i])

\* C10, amended: while the 1x1 store is generated and when it is done, of the
\* pieces read so far the first corner piece of the file has contributed one
\* tile, a rotation with left = 0 and top = 0, and every later corner piece
\* three, its rotations but the first in sort order, which has left = 0 and
\* top = 0; none of the three has left = 0 and top = 0 when the piece has just
\* two edges of 0
C10_LaterCornersLackFirst ==
    \A n \in 1..(IF pc \in {"generate", "run"} THEN gen.pieceNum ELSE 0) :
        IsCorner(pieces[n]) =>
            IF IsFirstCorner(n)
            THEN Contributed(n) = SubSeq(Sorted(n), 1, 1) /\ IsTopLeft(Contributed(n)[1])
            ELSE /\ Contributed(n) = SubSeq(Sorted(n), 2, 4)
                 /\ IsTopLeft(Sorted(n)[1])
                 /\ Cardinality({ s \in {"left", "top", "right", "bottom"} :
                                    pieces[n][s] = 0 }) = 2
                        => \A i \in 1..3 : ~IsTopLeft(Contributed(n)[i])

\* C10, the case: the store is generated from a file with a first corner piece
\* and a later corner piece of just two edges of 0
C10_TwoCorners ==
    /\ pc = "run"
    /\ \E n \in 1..Len(pieces) :
           /\ IsCorner(pieces[n])
           /\ ~IsFirstCorner(n)
           /\ Cardinality({ s \in {"left", "top", "right", "bottom"} :
                              pieces[n][s] = 0 }) = 2
           /\ Len(Contributed(n)) = 3

\* C6: the threaded solve of a board reports the total the solve with threaded
\* off reported for the same board and store, whatever order the tasks took
\* their steps and returned in
C6_ThreadedTotalSame ==
    (pc = "done" /\ Len(found) = 2) => found[2] = found[1]

\* C6, the case: a threaded solve has returned whose tasks could all run at
\* once, two of them with solutions of their own
C6_TwoTasksCounted ==
    /\ pc = "done"
    /\ Len(found) = 2
    /\ 0 < opts.hw
    /\ \E k \in DOMAIN boards :
           \E i, j \in DOMAIN boards[k].kids :
               /\ i # j
               /\ 0 < boards[boards[k].kids[i]].b.solutions
               /\ 0 < boards[boards[k].kids[j]].b.solutions

\* C5: for the 16 pieces of test_board on a 4 by 4 board of type normal, solve()
\* reports 640 solutions
C5_CanonicalSolutions ==
    (pieces = CanonicalPieces /\ found # << >>) => found[1] = Solutions4x4

\* C5, the case: the solve of the 4 by 4 board with the 1x1 tiles of the 16
\* pieces has returned and reported solutions
C5_CanonicalSolved ==
    /\ pieces = CanonicalPieces
    /\ opts.bw = 4 /\ opts.bh = 4 /\ opts.type = typeNormal
    /\ Len(found) = 1
    /\ 0 < found[1]

\* C7: for the same pieces and type normal, every solve reports the same count,
\* whichever tiles its board is built from: 1x1 tiles on W x H, 1x2 tiles on
\* W x H/2, 2x1 tiles on W/2 x H, 2x2 tiles on W/2 x H/2 (the boards the harness
\* and the driver build have two rows and two columns of tiles at least)
C7_SameCountEveryTileSize ==
    \A i \in DOMAIN found : found[i] = found[1]

\* C7, the case: the board was solved with 1x1, 1x2, 2x1 and 2x2 tiles, and
\* there were solutions
C7_FourTileSizes ==
    /\ pc = "done"
    /\ Len(found) = 4
    /\ 0 < found[4]

\* whether a store has all its tiles: the 1x1 store when generateLookups has
\* returned, a larger store when the plan has run past its pre-composition
Built(name) ==
    IF name = "1x1" THEN pc # "generate"
    ELSE \A i \in DOMAIN plan : plan[i].output # name

\* C9: for the 16 pieces of test_board, the 1x1 store holds 58 tiles, the 1x2
\* store built from it 316, the 2x1 store 316, and the 2x2 store 3472
C9_CanonicalStores ==
    pieces = CanonicalPieces =>
        /\ Built("1x1") => Tiles(stores["1x1"]) = Tiles1x1
        /\ Built("1x2") => Tiles(stores["1x2"]) = Tiles1x2
        /\ Built("2x1") => Tiles(stores["2x1"]) = Tiles2x1
        /\ Built("2x2") => Tiles(stores["2x2"]) = Tiles2x2

\* C9, the case: the four stores of the 16 pieces are built
C9_CanonicalBuilt ==
    /\ pieces = CanonicalPieces
    /\ pc = "done"
    /\ \A name \in {"1x1", "1x2", "2x1", "2x2"} : Built(name) /\ 0 < Tiles(stores[name])

\* C8: from the same 1x1 store, the 2x2 store fused from 1x2 tiles holds as many
\* tiles as the 2x2 store fused from 2x1 tiles, and the board solved with the
\* one reports the count it reports with the other
C8_FuseOrderSame ==
    /\ (Built("2x2") /\ Built("2x2_t")) =>
           Tiles(stores["2x2_t"]) = Tiles(stores["2x2"])
    /\ Len(found) = 2 => found[2] = found[1]

\* C8, the case: both 2x2 stores are built and hold tiles, and the board was
\* solved with each, with solutions
C8_BothFused ==
    /\ pc = "done"
    /\ 0 < Tiles(stores["2x2"])
    /\ 0 < Tiles(stores["2x2_t"])
    /\ Len(found) = 2
    /\ 0 < found[2]

\* how many of the pieces the claims about generateLookups look at: those read
\* so far while the 1x1 store is generated, and all of them when it is done
Generated == IF pc \in {"generate", "run"} THEN gen.pieceNum ELSE 0

\* the rotations of piece n as tiles of the 1x1 store
RotationSet(n) ==
    LET t == Rotations(ClassOf("1x1"), pieces[n], n - 1)
    IN  { t[i] : i \in 1..4 }

\* how many rotations the symmetry of a piece leaves distinct
DistinctRotations(p) ==
    IF p.left = p.top /\ p.top = p.right /\ p.right = p.bottom THEN 1
    ELSE IF p.left = p.right /\ p.top = p.bottom THEN 2
    ELSE 4

\* C11 as the spec words it: a piece that is no corner piece has contributed one
\* rotation if its four edges are equal, two rotations if left = right and
\* top = bottom but not all four are equal, and all four rotations otherwise;
\* the tiles contributed are rotations of the piece, each a different one
C11_RotationsBySymmetry ==
    \A n \in 1..Generated :
        ~IsCorner(pieces[n]) =>
            LET c == Contributed(n)
            IN  /\ Len(c) = DistinctRotations(pieces[n])
                /\ \A i \in DOMAIN c : c[i] \in RotationSet(n)
                /\ \A i, j \in DOMAIN c : i # j => c[i] # c[j]

\* C12 as the spec words it: no tile store holds two tiles with the same four
\* edge patterns and the same occupancy, whatever has been built so far
C12_NoTwoTilesAlike ==
    \A name \in StoreNames :
        \A i, j \in DOMAIN stores[name].tiles :
            i # j => stores[name].tiles[i] # stores[name].tiles[j]

\* the keys the spec gives a tile: its own key, and that key with the left
\* field, the top field or both replaced by the wildcard pattern, a field
\* being replaced only when the tile's pattern on that side is not zero
KeysOf(c, t) ==
    { MakeLookup(c, l, u, IF t.right # 0 THEN 1 ELSE 0, IF t.bottom # 0 THEN 1 ELSE 0) :
        l \in {t.left} \cup (IF t.left # 0 THEN {LEFT_EDGE(c)} ELSE {}),
        u \in {t.top} \cup (IF t.top # 0 THEN {TOP_EDGE(c)} ELSE {}) }

\* the positions of a bucket that hold the pointer ptr
PlacesIn(bucket, ptr) == { i \in DOMAIN bucket : bucket[i] = ptr }

\* C13: in every store, a tile is in the bucket of each of its keys exactly
\* once and in no other bucket; its keys are its own key and the wildcard
\* variants on the sides where its pattern is not zero
C13_BucketsOfATile ==
    \A name \in StoreNames :
        LET store == stores[name]
            c == ClassOf(name)
        IN  /\ \A k \in DOMAIN store.arrays :
                   \A i \in DOMAIN store.arrays[k] :
                       LET ptr == store.arrays[k][i]
                       IN  /\ ptr \in DOMAIN store.tiles
                           /\ k \in KeysOf(c, store.tiles[ptr])
                           /\ PlacesIn(store.arrays[k], ptr) = {i}
            /\ \A ptr \in DOMAIN store.tiles :
                   \A k \in KeysOf(c, store.tiles[ptr]) :
                       PlacesIn(At(store, k), ptr) # {}

\* C13, the case: every store is built, and the 2x2 store holds a tile with
\* four keys, one with two keys and one with its own key alone
C13_AllKindsFiled ==
    /\ pc = "done"
    /\ \A name \in StoreNames : Tiles(stores[name]) # 0
    /\ \A n \in {1, 2, 4} :
           \E ptr \in DOMAIN stores["2x2"].tiles :
               Cardinality(KeysOf(ClassOf("2x2"), stores["2x2"].tiles[ptr])) = n

\* a step of solve_for that fills the grid of pre-composition board k: the
\* innermost call is on the last placement and has a tile left to place
Fills(k) ==
    /\ pc = "stage"
    /\ boards[k].spc = "solve_for"
    /\ boards[k].b.kind # "board"
    /\ LET f == Top(boards[k].stack)
       IN  /\ NextOf(boards[k].b, f.p) = Null
           /\ NextFree(boards[k].b, f, f.i) # 0
    /\ boards'[k] # boards[k]

\* a followed by b, b in the high bits: the fields are `bits` wide
Concat(a, b, bits) == b * Pow2(bits) + a

\* C14: each step that fills a 1x2 pre-composition board, t0 in the upper cell
\* and t1 in the lower, adds exactly one tile to the output store and changes
\* no other store: its top is t0's, its bottom is t1's, its left and right are
\* t0's and t1's lefts and rights put together in the same cell order, and its
\* occupancy is the union of theirs
C14_FillInsertsFusedTile ==
    [][\A k \in DOMAIN boards :
          (Fills(k) /\ boards[k].b.kind = "vertical") =>
              LET b == boards'[k].b
                  input == stores[b.lookups].tiles
                  t0 == input[b.tile[PlacementAt(b, 0, 0)]]
                  t1 == input[b.tile[PlacementAt(b, 0, 1)]]
                  old == stores[b.output].tiles
                  new == stores'[b.output].tiles
                  bits == LEFT_EDGE_BITS(b.cls)
              IN  /\ \A name \in StoreNames \ {b.output} : stores'[name] = stores[name]
                  /\ Len(new) = Len(old) + 1
                  /\ SubSeq(new, 1, Len(old)) = old
                  /\ new[Len(new)].top = t0.top
                  /\ new[Len(new)].bottom = t1.bottom
                  /\ new[Len(new)].mask = t0.mask \cup t1.mask
                  /\ \/ /\ new[Len(new)].left = Concat(t0.left, t1.left, bits)
                        /\ new[Len(new)].right = Concat(t0.right, t1.right, bits)
                     \/ /\ new[Len(new)].left = Concat(t1.left, t0.left, bits)
                        /\ new[Len(new)].right = Concat(t1.right, t0.right, bits)]_vars

\* C14, the case: a vertical board has been filled, and the output store holds
\* a tile of two pieces whose left pattern has both cells' edges in it
C14_Fused ==
    /\ pc = "stage"
    /\ \E k \in DOMAIN boards : boards[k].b.kind = "vertical" /\ boards[k].spc = "solve_for"
    /\ \E i \in DOMAIN stores["1x2"].tiles :
           LET t == stores["1x2"].tiles[i]
               bits == LEFT_EDGE_BITS(ClassOf("1x1"))
           IN  /\ Cardinality(t.mask) = 2
               /\ t.left % Pow2(bits) # 0
               /\ t.left \div Pow2(bits) # 0
               /\ t.left % Pow2(bits) # t.left \div Pow2(bits)

\* the solutions counted so far, over all boards
Counted == SumSolutions(boards, [k \in 1..Len(boards) |-> k])

\* the solutions printed so far: a line is a tile per cell
Printed == Cardinality({ i \in DOMAIN out : out[i].mask # {} }) \div (opts.bw * opts.bh)

\* C15 as the spec words it: with quit-on-first on, printing or not, the solver
\* stops at the first solution it finds: never are two solutions counted or
\* printed
C15_QuitAtFirstSolution ==
    opts.quit => Counted + Printed <= 1

\* main has printed a message and returned: no store built, no board solved
Rejected(message) ==
    /\ pc = "exited"
    /\ out = << message >>
    /\ \A name \in StoreNames : stores[name] = EmptyStore
    /\ boards = << >>
    /\ found = << >>

\* main has chosen a mask and an edge namespace and called the driver
Accepted == pc \notin {"main", "exited"}

\* C16 as the spec words it: once main has looked at the pieces, more than 512
\* pieces are rejected with "too many pieces!" and a highest edge of 32 or more
\* with "too many edges!", no store built and no solve run
C16_TooManyRejected ==
    pc # "main" =>
        /\ 512 < Len(pieces) => Rejected("too many pieces!")
        /\ 32 <= HighestEdge(pieces) => Rejected("too many edges!")

\* C16, amended: the number of pieces is tested first, and more than 512 (more
\* than 256 in a 32 bit build) are rejected with "too many pieces!"; of the
\* other inputs, those with a highest edge of 31 or more are rejected with
\* "too many edges!"; a rejected input builds no store and runs no solve, and
\* every other input is run
C16_RejectedInOrder ==
    pc # "main" =>
        LET limit == IF opts.env = 64 THEN 512 ELSE 256
        IN  IF limit < Len(pieces) THEN Rejected("too many pieces!")
            ELSE IF 31 <= HighestEdge(pieces) THEN Rejected("too many edges!")
            ELSE Accepted /\ out = << >>

\* C16, the case: an input of few pieces with a highest edge of 31 is rejected
C16_Edge31Rejected ==
    /\ Rejected("too many edges!")
    /\ HighestEdge(pieces) = 31
    /\ Len(pieces) = 4

\* the sizes of the edge namespaces
EdgeClasses == {8, 16, 32}

\* the edge namespace of the run, as its size
EdgeClass == Pow2(opts.eb)

\* C17: the run uses the smallest edge class of 8, 16 and 32 that is greater
\* than the highest edge of the pieces plus one
C17_SmallestEdgeClass ==
    Accepted =>
        /\ EdgeClass \in EdgeClasses
        /\ HighestEdge(pieces) + 1 < EdgeClass
        /\ \A C \in EdgeClasses : HighestEdge(pieces) + 1 < C => EdgeClass <= C

\* C17, the case: a run with a highest edge of 15 has finished in the 32 class
C17_FifteenInThirtyTwo ==
    /\ pc = "done"
    /\ HighestEdge(pieces) = 15
    /\ EdgeClass = 32

\* C18 as the spec words it: a highest edge of 7 is solved with the 8 edge
\* class and a highest edge of 8 with the 16 edge class
C18_SevenInEightClass ==
    Accepted =>
        /\ HighestEdge(pieces) = 7 => EdgeClass = 8
        /\ HighestEdge(pieces) = 8 => EdgeClass = 16

\* C18, amended: a highest edge of 6 is solved with the 8 edge class, and a
\* highest edge of 7 or of 8 with the 16 edge class
C18_SixInEightClass ==
    Accepted =>
        /\ HighestEdge(pieces) = 6 => EdgeClass = 8
        /\ HighestEdge(pieces) = 7 => EdgeClass = 16
        /\ HighestEdge(pieces) = 8 => EdgeClass = 16

\* C18, the case: a run with a highest edge of 7 has finished in the 16 class
C18_SevenInSixteenClass ==
    /\ pc = "done"
    /\ HighestEdge(pieces) = 7
    /\ EdgeClass = 16
    /\ Tiles(stores["1x1"]) = Len(pieces)

\* the width in bits of the mask of the run
MaskWidth == MaskBits(opts.env, opts.mask)

\* C19 as the spec words it: 32 and 33 pieces get a mask of 64 bits, 64 and 65
\* pieces one of 128 bits, 128 and 129 pieces one of 256 bits
C19_NextLargerWidth ==
    Accepted =>
        /\ Len(pieces) \in {32, 33} => MaskWidth = 64
        /\ Len(pieces) \in {64, 65} => MaskWidth = 128
        /\ Len(pieces) \in {128, 129} => MaskWidth = 256

\* C19, amended: 33, 65 and 129 pieces get the next larger mask, of 64, 128 and
\* 256 bits; 64 pieces get a mask of 64 bits and 128 pieces one of 128 bits;
\* 32 pieces get the mask of one word, 32 bits in a 32 bit build and 64 bits
\* in a 64 bit build
C19_WidthHoldsPieces ==
    Accepted =>
        /\ Len(pieces) = 32 => MaskWidth = opts.env
        /\ Len(pieces) \in {33, 64} => MaskWidth = 64
        /\ Len(pieces) \in {65, 128} => MaskWidth = 128
        /\ Len(pieces) = 129 => MaskWidth = 256

\* C19, the case: a run with 64 pieces has finished with a mask of 64 bits that
\* has a bit for every piece
C19_SixtyFourInSixtyFour ==
    /\ pc = "done"
    /\ Len(pieces) = 64
    /\ MaskWidth = 64
    /\ \E i \in DOMAIN stores["1x1"].tiles : 63 \in stores["1x1"].tiles[i].mask

\* four pieces with every edge 0 on a 2x2 board of type normal
AllZero2x2 ==
    /\ pieces = [i \in 1..4 |-> Piece(0, 0, 0, 0)]
    /\ opts.bw = 2 /\ opts.bh = 2 /\ opts.type = typeNormal

\* C20 as the spec words it: for a 2x2 board of type normal and four pieces
\* whose edges are all 0 the solver reports exactly 1 solution
C20_AllZeroOneSolution ==
    (AllZero2x2 /\ found # << >>) => found[1] = 1

\* C20, amended: for a 2x2 board of type normal and four pieces whose edges are
\* all 0 the solver reports 0 solutions, and it counts none on the way
C20_AllZeroNoSolution ==
    AllZero2x2 => Counted = 0 /\ (found # << >> => found[1] = 0)

\* C20, the case: the run on the four pieces is over, the store holding one
\* rotation of the first piece and three of each of the others
C20_AllZeroSolved ==
    /\ AllZero2x2
    /\ pc = "done"
    /\ Len(found) = 1
    /\ Tiles(stores["1x1"]) = 10

\* the driver's stage ends: solve_boards reports its total
Reports == pc = "stage" /\ Head(plan).op = "driver" /\ pc' # "stage"

\* C21: when the driver reports, a request that is not square has had two
\* boards solved, len_min by len_max and len_max by len_min of the same tiles,
\* and the total is the sum of their counters; a square request has had one
\* board solved, and the total is its counter
C21_BothOrientationsSummed ==
    [][Reports =>
          LET top == TopBoards
              lo == Min(opts.bw, opts.bh)
              hi == Max(opts.bw, opts.bh)
              cw == ClassOf(boards[top[1]].b.lookups).cw
              ch == ClassOf(boards[top[1]].b.lookups).ch
          IN  /\ \A i \in DOMAIN top : boards[top[i]].spc = "returned"
              /\ boards[top[1]].b.width = lo \div cw
              /\ boards[top[1]].b.height = hi \div ch
              /\ IF opts.bw = opts.bh
                 THEN /\ Len(top) = 1
                      /\ found' = Append(found, boards[top[1]].b.solutions)
                 ELSE /\ Len(top) = 2
                      /\ cw = ch => /\ boards[top[2]].b.lookups = boards[top[1]].b.lookups
                                     /\ boards[top[2]].b.width = hi \div cw
                                     /\ boards[top[2]].b.height = lo \div ch
                      /\ found' = Append(found, boards[top[1]].b.solutions
                                                  + boards[top[2]].b.solutions)]_vars

\* C21, the case: a 2 by 3 request has been solved with 1x1 tiles, both boards
\* have counted solutions and the total is reported
C21_TwoBoardsReported ==
    /\ pc = "done"
    /\ opts.bw # opts.bh
    /\ Len(boards) = 2
    /\ boards[1].b.width = 2 /\ boards[1].b.height = 3
    /\ boards[2].b.width = 3 /\ boards[2].b.height = 2
    /\ 0 < boards[1].b.solutions
    /\ 0 < boards[2].b.solutions
    /\ found = << boards[1].b.solutions + boards[2].b.solutions >>

\* the tiles an array points at, as a bag: pointer to number of places
Places(array) == [ptr \in { array[i] : i \in DOMAIN array } |-> Cardinality(PlacesIn(array, ptr))]

\* C22: a randomize step leaves the tiles of every store and the tiles of
\* every bucket as they were, only their order in the bucket may change; and
\* the run with randomization reports the count of the run without
C22_RandomizeKeepsBuckets ==
    /\ [][(pc = "run" /\ Head(plan).op = "randomize") =>
              \A name \in StoreNames :
                  /\ stores'[name].tiles = stores[name].tiles
                  /\ DOMAIN stores'[name].arrays = DOMAIN stores[name].arrays
                  /\ \A v \in DOMAIN stores[name].arrays :
                         Places(stores'[name].arrays[v]) = Places(stores[name].arrays[v])]_vars
    /\ [](Len(found) = 2 => found[2] = found[1])

\* C22, the case: both runs are over with solutions found, and a bucket of the
\* randomized store is no longer in the order of insertion
C22_OrderChanged ==
    /\ pc = "done"
    /\ Len(found) = 2
    /\ 0 < found[2]
    /\ \E v \in DOMAIN stores["1x1"].arrays :
           \E i, j \in DOMAIN stores["1x1"].arrays[v] :
               i < j /\ stores["1x1"].arrays[v][j] < stores["1x1"].arrays[v][i]

\* the entries of out a printed solution takes: a tile per cell and the newline
BlockLen == opts.bw * opts.bh + 1

\* C23: what is printed is a sequence of blocks, each the tiles of one board's
\* solution followed by its newline; no entry of another board lies inside a
\* block, complete or not
C23_SolutionsPrintWhole ==
    (opts.print /\ opts.threaded) =>
        \A i \in DOMAIN out :
            LET first == ((i - 1) \div BlockLen) * BlockLen + 1
            IN  /\ out[i].board = out[first].board
                /\ (out[i].mask = {}) <=> (i % BlockLen = 0)

\* C23, the case: a board holds the lock in the middle of its solution, with a
\* solution of another board printed before, while a third task is running
C23_TwoWorkersPrint ==
    /\ opts.print /\ opts.threaded
    /\ BlockLen < Len(out)
    /\ Len(out) % BlockLen = 2
    /\ out[Len(out)].board # out[BlockLen].board
    /\ m = out[Len(out)].board
    /\ \E k \in DOMAIN boards : k # m /\ boards[k].spc = "solve_for"

\* the boards whose solve() is threaded and under way
Drivers == { k \in DOMAIN boards : boards[k].spc \in {"fanout", "drain", "join"} }

\* the most tasks a driver has launched and not yet waited on
Window == Max(1, 4 * opts.hw)

\* C24: a driver's launched tasks not yet waited on are never more than
\* max(1, 4 * hardware_concurrency); it launches only below that number, and
\* having reached it waits for the oldest tasks, in order, each finished when
\* it is dropped, and launches again only with at most
\* 2 * hardware_concurrency left
C24_WindowOfTasks ==
    /\ [](\A k \in Drivers :
            /\ Len(boards[k].work) <= Window
            /\ boards[k].spc = "fanout" => Len(boards[k].work) < Window)
    /\ [][\A k \in Drivers :
            /\ (Len(boards'[k].work) > Len(boards[k].work)) =>
                   /\ boards[k].spc = "fanout"
                   /\ boards'[k].work = Append(boards[k].work, Len(boards'))
                   /\ (4 * opts.hw <= Len(boards'[k].work)) =>
                          boards'[k].spc = "drain"
            /\ (boards[k].spc = "drain" /\ boards'[k] # boards[k]) =>
                   /\ boards[Head(boards[k].work)].spc = "returned"
                   /\ boards'[k].work = Tail(boards[k].work)
                   /\ (boards'[k].spc # "drain") =>
                          /\ boards'[k].spc = "fanout"
                          /\ Len(boards'[k].work) <= 2 * opts.hw]_vars

\* C24 as stated: never more than 4 * hardware_concurrency tasks not waited on
C24_NeverAboveFourTimes ==
    \A k \in Drivers : Len(boards[k].work) <= 4 * opts.hw

\* C24, the case: the limit was reached, the driver has waited down to two
\* tasks per thread and has launched again
C24_WindowReopened ==
    \E k \in Drivers :
        /\ 0 < opts.hw
        /\ boards[k].spc = "fanout"
        /\ 4 * opts.hw < Len(boards[k].kids)
        /\ Len(boards[k].work) = 2 * opts.hw + 1

\* the boards a threaded solve() of board k launched solve_for on
TasksOf(k) == { j \in DOMAIN boards : boards[j].parent = k }

\* the counters of a set of boards added up
RECURSIVE Total(_)
Total(ids) ==
    IF ids = {} THEN 0
    ELSE LET j == CHOOSE x \in ids : TRUE
         IN  boards[j].b.solutions + Total(ids \ {j})

\* C25: in the step in which a threaded solve() takes its total, there is one
\* task per candidate of the first cell, every task has returned, and the
\* total is the sum of the counters of the tasks, each taken once
C25_TotalOfAllTasks ==
    [][\A k \in Drivers :
          (boards'[k].spc = "returned") =>
              LET o == boards[k]
              IN  /\ Cardinality(TasksOf(k)) =
                         Len(At(stores[o.b.lookups], LookupOf(o.b, 0)))
                  /\ \A j \in TasksOf(k) : boards[j].spc = "returned"
                  /\ boards'[k].b.solutions = o.b.solutions + Total(TasksOf(k))
                  /\ \A j \in TasksOf(k) : boards'[j] = boards[j]]_vars

\* C25, the case: a threaded solve has taken its total, of more tasks than the
\* list holds at once, tasks with solutions among those waited on early and
\* among those waited on at the end
C25_EarlyAndLateTasksCounted ==
    \E k \in DOMAIN boards :
        LET o == boards[k]
        IN  /\ o.spc = "returned"
            /\ 0 < opts.hw
            /\ 4 * opts.hw < Len(o.kids)
            /\ 0 < boards[o.kids[1]].b.solutions
            /\ 0 < boards[o.kids[Len(o.kids)]].b.solutions
            /\ o.b.solutions >= 2

\* the mask of the tile on cell q of a board
MaskOn(b, q) == stores[b.lookups].tiles[b.tile[q]].mask

\* C26: the mask of every call of solve_for under way is the union of the
\* masks of the tiles on the cells of the path, which are the cells before the
\* call's own: the mask of the first call of a board is empty or, for a task of
\* a threaded solve, the mask of the tile on the first cell, and the mask of a
\* deeper call is the mask of its caller and of the tile the caller has placed
C26_MaskOfThePath ==
    \A k \in DOMAIN boards :
        LET b == boards[k].b
            stack == boards[k].stack
        IN  \A d \in DOMAIN stack :
                /\ stack[d].mask = UNION { MaskOn(b, q) : q \in 0..(stack[d].p - 1) }
                /\ d = 1 => stack[d].p \in {0, 1}
                /\ d > 1 => /\ stack[d].p = NextOf(b, stack[d - 1].p)
                            /\ stack[d].mask =
                                   stack[d - 1].mask \cup MaskOn(b, stack[d - 1].p)

\* C26, the case: a call on the second cell of a board of tiles of two pieces,
\* back from a deeper step, with a tile of an abandoned branch on its own cell
C26_TwoPiecesOnThePath ==
    \E k \in DOMAIN boards :
        /\ Len(boards[k].stack) = 2
        /\ LET f == Top(boards[k].stack)
           IN  /\ Cardinality(f.mask) = 2
               /\ f.mask = MaskOn(boards[k].b, 0)
               /\ 0 < boards[k].b.tile[f.p]
               /\ f.i < Len(At(stores[boards[k].b.lookups], f.value))

\* whether cell q of a board holds a tile: one of the path, or one an
\* abandoned branch left there
Holds(b, q) == q # Junk /\ b.tile[q] # 0

\* the left and the top pattern the key of cell p has to carry on a board of the
\* given type
LeftPatternDue(b, type, p) ==
    IF Holds(b, LeftOf(b, p)) THEN StoreTile(b, b.tile[LeftOf(b, p)]).right
    ELSE IF XOf(b, p) = 0 /\ IsBorder(type, LEFT_BORDER) THEN 0
    ELSE LEFT_EDGE(b.cls)

TopPatternDue(b, type, p) ==
    IF Holds(b, TopOf(b, p)) THEN StoreTile(b, b.tile[TopOf(b, p)]).bottom
    ELSE IF YOf(b, p) = 0 /\ IsBorder(type, TOP_BORDER) THEN 0
    ELSE TOP_EDGE(b.cls)

KeyOfPath(b, type, p) ==
    MakeLookup(b.cls,
        IF LeftOf(b, p) # Junk THEN StoreTile(b, b.tile[LeftOf(b, p)]).right
        ELSE IF IsBorder(type, LEFT_BORDER) THEN 0 ELSE LEFT_EDGE(b.cls),
        IF TopOf(b, p) # Junk THEN StoreTile(b, b.tile[TopOf(b, p)]).bottom
        ELSE IF IsBorder(type, TOP_BORDER) THEN 0 ELSE TOP_EDGE(b.cls),
        IF XOf(b, p) = b.width - 1 /\ IsBorder(type, RIGHT_BORDER) THEN 0 ELSE 1,
        IF YOf(b, p) = b.height - 1 /\ IsBorder(type, BOTTOM_BORDER) THEN 0 ELSE 1)

\* C28: the key a call of solve_for queried the store with, read when the call
\* entered its cell, is the key the tiles of the path impose: its left and top
\* neighbours are cells before its own, they hold the tiles the calls under
\* way placed, and the key has their patterns, whatever an abandoned branch
\* wrote there before; the candidates of the call are the array under that key
C28_KeyAtEntryIsOfThePath ==
    \A k \in DOMAIN boards :
        LET b == boards[k].b
            stack == boards[k].stack
        IN  \A d \in DOMAIN stack :
                LET f == stack[d]
                IN  /\ LeftOf(b, f.p) # Junk => LeftOf(b, f.p) < f.p
                    /\ TopOf(b, f.p) # Junk => TopOf(b, f.p) < f.p
                    /\ \A e \in 1..(d - 1) : stack[e].p = f.p - 1 - (d - 1 - e)
                    /\ f.value = KeyOfPath(b, opts.type, f.p)
                    /\ f.i <= Len(At(stores[b.lookups], KeyOfPath(b, opts.type, f.p)))

\* C28, the case: a cell is entered again, the tile of the abandoned branch
\* still on it, and its key no longer has the left pattern that tile was
\* chosen under
C28_EnteredAgainWithNewKey ==
    \E k \in DOMAIN boards :
        /\ boards[k].stack # << >>
        /\ LET b == boards[k].b
               f == Top(boards[k].stack)
           IN  /\ LeftOf(b, f.p) # Junk
               /\ Holds(b, f.p)
               /\ f.pr = -1
               /\ f.i = Len(At(stores[b.lookups], f.value))
               /\ StoreTile(b, b.tile[f.p]).left # LookupLeft(b.cls, f.value)
               /\ LookupLeft(b.cls, f.value) = StoreTile(b, b.tile[LeftOf(b, f.p)]).right

\* the cells of a board, the junk placement among them
Cells(b) == Placements(b) \cup {Junk}

\* whether board a became board b by place() of the tile behind ptr on cell p:
\* the tile of p, the left pattern of the right neighbour and the top pattern
\* of the bottom neighbour, and nothing else of any cell
PlacedOn(a, b, p, ptr) ==
    LET c == a.cls
        t == StoreTile(a, ptr)
    IN  /\ b.tile = [a.tile EXCEPT ![p] = ptr]
        /\ \A q \in Cells(a) :
               LookupOf(b, q) =
                   MakeLookup(c,
                       IF q = RightOf(a, p) THEN t.right
                       ELSE LookupLeft(c, LookupOf(a, q)),
                       IF q = BottomOf(a, p) THEN t.bottom
                       ELSE LookupTop(c, LookupOf(a, q)),
                       LookupRight(c, LookupOf(a, q)),
                       LookupBottom(c, LookupOf(a, q)))
        /\ b.lookup[p] = a.lookup[p]
        /\ b.width = a.width /\ b.height = a.height
        /\ b.cls = a.cls /\ b.lookups = a.lookups

\* C29: a step of the search that changes a cell of a board is place() of a
\* store tile on the cell of the innermost call: the cell gets the tile, its
\* right neighbour the tile's right pattern as left pattern, its bottom
\* neighbour the tile's bottom pattern as top pattern; no other field of a
\* cell changes, and no right or bottom flag ever does
C29_PlaceChangesThreeThings ==
    [][\A k \in DOMAIN boards :
          LET a == boards[k].b
              b == boards'[k].b
          IN  /\ (a.tile # b.tile \/ a.lookup # b.lookup \/ a.junk # b.junk) =>
                     /\ boards[k].stack # << >>
                     /\ \E ptr \in DOMAIN stores[a.lookups].tiles :
                            PlacedOn(a, b, Top(boards[k].stack).p, ptr)
              /\ \A q \in Cells(a) :
                     /\ LookupRight(a.cls, LookupOf(b, q)) =
                            LookupRight(a.cls, LookupOf(a, q))
                     /\ LookupBottom(a.cls, LookupOf(b, q)) =
                            LookupBottom(a.cls, LookupOf(a, q))]_vars

\* C29, the case: the first tile of a search is on the first cell of a board of
\* more than one row and column; the two neighbours have its patterns, every
\* other cell is as seeded and empty
C29_FirstTilePlaced ==
    \E k \in DOMAIN boards :
        LET b == boards[k].b
            seed == SetType(b, opts.type)
        IN  /\ Len(boards[k].stack) = 2
            /\ 1 < b.width /\ 1 < b.height
            /\ Holds(b, 0)
            /\ \A q \in Placements(b) \ {0} : ~Holds(b, q)
            /\ LookupLeft(b.cls, b.lookup[RightOf(b, 0)]) = StoreTile(b, b.tile[0]).right
            /\ LookupTop(b.cls, b.lookup[BottomOf(b, 0)]) = StoreTile(b, b.tile[0]).bottom
            /\ LookupLeft(b.cls, b.lookup[RightOf(b, 0)]) # LEFT_EDGE(b.cls)
            /\ \A q \in Placements(b) \ {RightOf(b, 0), BottomOf(b, 0)} :
                   b.lookup[q] = seed.lookup[q]

\* whether a side of cell p lies on a border of a board of the given type: the
\* cell is on the outer column or row of that side and the type has the border
OnBorder(b, type, p, side) ==
    /\ IsBorder(type, side)
    /\ \/ side = LEFT_BORDER /\ XOf(b, p) = 0
       \/ side = TOP_BORDER /\ YOf(b, p) = 0
       \/ side = RIGHT_BORDER /\ XOf(b, p) = b.width - 1
       \/ side = BOTTOM_BORDER /\ YOf(b, p) = b.height - 1

\* C30: after setType, the key of every cell has pattern 0 on a left or top
\* side on a border of the type and the wildcard on any other, flag 0 on a
\* right or bottom side on a border and flag 1 on any other; a cell off column
\* 0 has no 0 as left pattern, off row 0 none as top pattern, off the last
\* column no right flag 0, off the last row no bottom flag 0
C30_KeysSeededByType ==
    pc = "seed" =>
        LET b == boards[1].b
            c == b.cls
        IN  \A p \in Placements(b) :
                LET v == b.lookup[p]
                IN  /\ LookupLeft(c, v) =
                           IF OnBorder(b, opts.type, p, LEFT_BORDER) THEN 0
                           ELSE Pow2(c.ch * c.eb) - 1
                    /\ LookupTop(c, v) =
                           IF OnBorder(b, opts.type, p, TOP_BORDER) THEN 0
                           ELSE Pow2(c.cw * c.eb) - 1
                    /\ LookupRight(c, v) =
                           IF OnBorder(b, opts.type, p, RIGHT_BORDER) THEN 0 ELSE 1
                    /\ LookupBottom(c, v) =
                           IF OnBorder(b, opts.type, p, BOTTOM_BORDER) THEN 0 ELSE 1
                    /\ LookupLeft(c, v) = 0 => XOf(b, p) = 0
                    /\ LookupTop(c, v) = 0 => YOf(b, p) = 0
                    /\ LookupRight(c, v) = 0 => XOf(b, p) = b.width - 1
                    /\ LookupBottom(c, v) = 0 => YOf(b, p) = b.height - 1

\* C30, the case: a 3 by 3 board set to the type top left corner; the first
\* cell has 0 on the left and on top and both flags 1, the cell in the middle
\* and the last cell have wildcards and flags 1
C30_TopLeftCornerSeeded ==
    /\ pc = "seed"
    /\ opts.type = typeTopLeftCorner
    /\ LET b == boards[1].b
           c == b.cls
       IN  /\ b.width = 3 /\ b.height = 3
           /\ b.lookup[PlacementAt(b, 0, 0)] = MakeLookup(c, 0, 0, 1, 1)
           /\ b.lookup[PlacementAt(b, 1, 1)] = MakeLookup(c, LEFT_EDGE(c), TOP_EDGE(c), 1, 1)
           /\ b.lookup[PlacementAt(b, 2, 2)] = MakeLookup(c, LEFT_EDGE(c), TOP_EDGE(c), 1, 1)
           /\ b.lookup[PlacementAt(b, 0, 2)] = MakeLookup(c, 0, TOP_EDGE(c), 1, 1)

\* the pointers of every bucket of every store in the order of insertion: a
\* pointer is the tile's position in the list the tiles are pushed on
InInsertionOrder ==
    \A n \in StoreNames :
        \A v \in DOMAIN stores[n].arrays :
            \A i, j \in DOMAIN stores[n].arrays[v] :
                i < j => stores[n].arrays[v][i] < stores[n].arrays[v][j]

\* whether the step is one in which the innermost call of board k goes on to
\* its next candidate, having placed one before, and places it
TriesNext(k) ==
    /\ k \in DOMAIN boards /\ k \in DOMAIN boards'
    /\ boards[k].spc = "solve_for"
    /\ boards[k].stack # << >>
    /\ Len(boards'[k].stack) >= Len(boards[k].stack)
    /\ LET d == Len(boards[k].stack)
           f == boards[k].stack[d]
       IN  /\ boards'[k].stack[d].i < f.i
           /\ f.i < Len(At(stores[boards[k].b.lookups], f.value))

\* the pointer the innermost call of board k placed last, and the pointer the
\* step places
TriedBefore(k) == CandidatePtr(boards[k].b, Top(boards[k].stack), Top(boards[k].stack).i + 1)
TriedNow(k) == boards'[k].b.tile[Top(boards[k].stack).p]

Slots(pattern, eb, n) == [i \in 1..n |-> (pattern \div Pow2(eb * (i - 1))) % Pow2(eb)]

\* whether a tile is one a key asks for: the key's pattern, or any pattern
\* but 0 where the key has the wildcard, and the flags saying whether the
\* tile's right and bottom are 0
AskedFor(c, v, t) ==
    /\ IF LookupLeft(c, v) = Pow2(c.ch * c.eb) - 1 THEN t.left # 0
       ELSE t.left = LookupLeft(c, v)
    /\ IF LookupTop(c, v) = Pow2(c.cw * c.eb) - 1 THEN t.top # 0
       ELSE t.top = LookupTop(c, v)
    /\ LookupRight(c, v) = (IF t.right # 0 THEN 1 ELSE 0)
    /\ LookupBottom(c, v) = (IF t.bottom # 0 THEN 1 ELSE 0)

\* C32: in every store of an accepted request no cell of a side of a tile has
\* the colour of all ones, so no tile has the wildcard as left or top
\* pattern; and the bucket of a key is the set of the tiles the key asks for,
\* a wildcard standing for every pattern but 0
C32_NoTileHasTheWildcard ==
    opts.eb # 0 =>
        \A n \in StoreNames :
            LET c == ClassOf(n)
                store == stores[n]
            IN  /\ \A i \in DOMAIN store.tiles :
                       LET t == store.tiles[i]
                       IN  /\ t.left # Pow2(c.ch * c.eb) - 1
                           /\ t.top # Pow2(c.cw * c.eb) - 1
                           /\ \A j \in 1..c.ch :
                                  /\ Slots(t.left, c.eb, c.ch)[j] < Pow2(c.eb) - 1
                                  /\ Slots(t.right, c.eb, c.ch)[j] < Pow2(c.eb) - 1
                           /\ \A j \in 1..c.cw :
                                  /\ Slots(t.top, c.eb, c.cw)[j] < Pow2(c.eb) - 1
                                  /\ Slots(t.bottom, c.eb, c.cw)[j] < Pow2(c.eb) - 1
                /\ \A v \in DOMAIN store.arrays :
                       { store.arrays[v][i] : i \in DOMAIN store.arrays[v] } =
                           { i \in DOMAIN store.tiles : AskedFor(c, v, store.tiles[i]) }

\* C32, the case: the stores of a request with 7 edges are built; a 2x2 tile
\* has the highest edge, 6, on both cells of its left side and is in the
\* bucket of the key with both wildcards
C32_HighestEdgeFiled ==
    /\ pc = "done"
    /\ opts.eb = 3
    /\ LET c == ClassOf("2x2")
           store == stores["2x2"]
       IN  \E i \in DOMAIN store.tiles :
               /\ store.tiles[i].left = 6 + 6 * 8
               /\ \E v \in DOMAIN store.arrays :
                      /\ LookupLeft(c, v) = 63
                      /\ LookupTop(c, v) = 63
                      /\ \E j \in DOMAIN store.arrays[v] : store.arrays[v][j] = i

\* the placement grid of a board: tile and key of every cell, junk included
Grid(b) == << b.tile, b.lookup, b.junk >>

\* the pointers of every cell of a board lead to a cell of the board or to
\* its junk placement, previous and next to a cell or nowhere, and the
\* neighbours are each other's
OwnPointers(b) ==
    \A p \in Placements(b) :
        /\ { LeftOf(b, p), TopOf(b, p), RightOf(b, p), BottomOf(b, p) }
               \subseteq Cells(b)
        /\ { PrevOf(b, p), NextOf(b, p) } \subseteq Placements(b) \cup {Null}
        /\ RightOf(b, p) # Junk => LeftOf(b, RightOf(b, p)) = p
        /\ BottomOf(b, p) # Junk => TopOf(b, BottomOf(b, p)) = p
        /\ NextOf(b, p) # Null => PrevOf(b, NextOf(b, p)) = p

Inserting(name) ==
    { k \in DOMAIN boards : boards[k].spc = "insert" /\ boards[k].b.output = name }

\* C34: at most one board is inside insert() on a store at a time; a store
\* changes only in the step in which a board enters insert() on it, no other
\* board being inside, or in randomize, which runs when no board is inside
\* insert() on any store and no task is under way
C34_OneWriterPerStore ==
    /\ [](\A n \in StoreNames : Cardinality(Inserting(n)) <= 1)
    /\ [][\A n \in StoreNames \ {"1x1"} :
            stores'[n] # stores[n] =>
                \/ /\ pc = "stage"
                   /\ Inserting(n) = {}
                   /\ Cardinality({ k \in DOMAIN boards' :
                          boards'[k].spc = "insert" /\ boards'[k].b.output = n }) = 1
                \/ /\ pc = "run"
                   /\ Head(plan).op = "randomize"
                   /\ \A k \in DOMAIN boards : boards[k].spc = "returned"]_vars

\* C34, the case: a task of the threaded pre-composition is inside insert() on
\* the output store, another is about to fill its board and has to wait, and
\* the store holds a tile already
C34_OneInsideOneWaiting ==
    /\ pc = "stage"
    /\ \E k, j \in DOMAIN boards :
           /\ k # j
           /\ boards[k].spc = "insert"
           /\ AtFill(j)
           /\ boards[j].b.output = boards[k].b.output
           /\ boards[k].parent = boards[j].parent
           /\ boards[boards[k].parent].b.threaded

\* how often a tile is filed under a key of a store
Filed(store, v, t) ==
    Cardinality({ i \in DOMAIN At(store, v) : store.tiles[At(store, v)[i]] = t })

\* how often a tile is in the list of a store
Listed(store, t) == Cardinality({ i \in DOMAIN store.tiles : store.tiles[i] = t })

\* two stores with the same tiles, as often, in the list and under every key
SameTiles(s1, s2) ==
    LET all == { s1.tiles[i] : i \in DOMAIN s1.tiles } \cup { s2.tiles[i] : i \in DOMAIN s2.tiles }
    IN  /\ Len(s1.tiles) = Len(s2.tiles)
        /\ DOMAIN s1.arrays = DOMAIN s2.arrays
        /\ \A t \in all :
               /\ Listed(s1, t) = Listed(s2, t)
               /\ \A v \in DOMAIN s1.arrays : Filed(s1, v, t) = Filed(s2, v, t)

\* the 1x2 store the pre-composition that is not threaded builds from the 1x1
\* store
Unthreaded1x2 ==
    ComposeFrom(StageBoards(ComposeStage("vertical", "1x1", "1x2", FALSE))[1].b,
                EmptyStore, 1)

\* C35: when the threaded pre-composition has returned, in whatever order its
\* tasks went into insert(), the output store has the tiles of the run that
\* is not threaded: as many, and the same under every key
C35_ThreadedStoreSame ==
    (pc \in {"run", "stage", "done"} /\ Len(plan) <= 2) =>
        SameTiles(stores["1x2"], Unthreaded1x2)

\* C35, the case: the threaded pre-composition has returned with tiles of more
\* than one task in the store, in another order than the run that is not
\* threaded lists them
C35_AnotherOrder ==
    /\ pc = "run"
    /\ Len(plan) = 2
    /\ 2 <= Len(stores["1x2"].tiles)
    /\ stores["1x2"].tiles # Unthreaded1x2.tiles
    /\ Cardinality({ k \in DOMAIN boards : boards[k].parent # 0 /\ boards[k].stack = << >>
                                           /\ Holds(boards[k].b, 1) }) >= 2

\* the four edges of a tile of the 1x1 store, left, top, right, bottom
Orientation(t) == << t.left, t.top, t.right, t.bottom >>

\* whether piece p is no corner piece and has left = right and top = bottom but
\* left # top
OppositeSame(p) ==
    /\ ~IsCorner(p)
    /\ p.left = p.right
    /\ p.top = p.bottom
    /\ p.left # p.top

\* C36 as the spec words it: of the pieces read so far, one that is no corner
\* piece and has left = right, top = bottom and left # top has contributed two
\* tiles to the 1x1 store, and they are its two orientations (l,t,l,t) and
\* (t,l,t,l), not the same orientation twice
C36_BothOrientationsInserted ==
    \A n \in 1..Generated :
        OppositeSame(pieces[n]) =>
            LET c == Contributed(n)
                l == pieces[n].left
                t == pieces[n].top
            IN  /\ Len(c) = 2
                /\ { Orientation(c[i]) : i \in DOMAIN c } = { << l, t, l, t >>, << t, l, t, l >> }

(***************************************************************************)
(* Termination.  The requests of the two threaded specifications together, *)
(* the solve that is not threaded among them; every thread that can take a *)
(* step is run at some time, std::launch::async giving every task a thread *)
(* of its own, so the run as a whole does not stop while a step is open.   *)
(***************************************************************************)

TerminationInit == ThreadsInit \/ WindowInit

\* whether the call of solve_for of board k stands before a lock it cannot take
AtHeldLock(k) ==
    LET b == boards[k].b
        f == Top(boards[k].stack)
    IN  /\ f.pr < 0
        /\ NextFree(b, f, f.i) # 0
        /\ NextOf(b, f.p) = Null
        /\ IF b.print THEN ~CanLock(m)
           ELSE b.kind # "board" /\ ~CanLockStore(b.output)

\* whether board k has a step to take
Runnable(k) ==
    LET o == boards[k]
    IN  \/ /\ o.spc = "idle"
           /\ o.b.kind = "board"
           /\ opts.threaded \/ \A j \in 1..(k - 1) : boards[j].spc = "returned"
        \/ o.spc = "solve_for" /\ ~AtHeldLock(k)
        \/ o.spc = "fanout"
        \/ o.spc = "drain" /\ boards[Head(o.work)].spc = "returned"
        \/ o.spc = "join" /\ (o.j < Len(o.work) => boards[o.work[o.j + 1]].spc = "returned")

\* ENABLED <<ThreadsNext>>_vars written out: the run has a step to take
CanStep ==
    \/ pc = "generate"
    \/ pc = "run" /\ Head(plan).op # "randomize"
    \/ pc = "stage" /\ \A k \in DOMAIN boards : boards[k].spc = "returned"
    \/ pc = "stage" /\ \E k \in DOMAIN boards : Runnable(k)

\* WF_vars(ThreadsNext), with ENABLED written out as CanStep: a run that can
\* take a step at every time from some time on takes steps again and again
Fairness == []<>(~CanStep) \/ []<><<ThreadsNext>>_vars

SpecTerminates == TerminationInit /\ [][ThreadsNext]_vars /\ Fairness

\* the calls of solve_for of a board are nested no deeper than it has cells
DepthWithinCells ==
    \A k \in DOMAIN boards :
        Len(boards[k].stack) <= boards[k].b.width * boards[k].b.height

\* the loop counter of every call lies within its bucket
CounterWithinBucket ==
    \A k \in DOMAIN boards :
        \A d \in DOMAIN boards[k].stack :
            LET f == boards[k].stack[d]
            IN  0 <= f.i /\ f.i <= Len(At(stores[boards[k].b.lookups], f.value))

\* a step leaves the bucket and the key of every call that stays, never raises
\* its loop counter, and lowers the counter of the call that calls deeper
CountsDown ==
    \A k \in DOMAIN boards :
        k \in DOMAIN boards' =>
            LET old == boards[k].stack
                new == boards'[k].stack
            IN  /\ \A d \in 1..Min(Len(old), Len(new)) :
                       /\ new[d].value = old[d].value
                       /\ new[d].i <= old[d].i
                /\ (old # << >> /\ Len(new) = Len(old) + 1) =>
                       new[Len(old)].i < old[Len(old)].i

\* the tasks of board k still to be waited on
Unwaited(k) ==
    { boards[k].work[n] : n \in (boards[k].j + 1)..Len(boards[k].work) }

\* a solve() that has returned has waited on every task it launched
WaitedBeforeReturn ==
    \A k \in DOMAIN boards :
        boards[k].spc = "returned" =>
            \A n \in DOMAIN boards[k].kids : boards[boards[k].kids[n]].spc = "returned"

\* the run is over and every task launched has returned and been waited on
AllWaited ==
    /\ pc = "done"
    /\ \A k \in DOMAIN boards :
           /\ boards[k].spc = "returned"
           /\ boards[k].stack = << >>
           /\ Unwaited(k) = {}

\* C37: every solve() ends.  The calls of solve_for are nested no deeper than
\* the board has cells, every call goes through its bucket once, counting
\* down, and with every thread run at some time the run comes to its end with
\* every launched task returned and waited on, with hardware_concurrency()
\* 0 as with 1
C37_SolveTerminates ==
    /\ [](DepthWithinCells /\ CounterWithinBucket /\ WaitedBeforeReturn)
    /\ [][CountsDown]_vars
    /\ <>AllWaited

\* C37, the case: a threaded solve with hardware_concurrency() 0 has come to
\* its end, more than one task launched and waited on, the board full in one
\* of them
C37_EndedWithNoHardwareThreads ==
    /\ AllWaited
    /\ opts.hw = 0
    /\ \E k \in DOMAIN boards :
           /\ 2 <= Len(boards[k].kids)
           /\ \E n \in DOMAIN boards[k].kids : 0 < boards[boards[k].kids[n]].b.solutions

\* whether the n cells along a side of a tile are all 0 or all not 0
WholeSide(pattern, eb, n) ==
    \/ \A j \in 1..n : Slots(pattern, eb, n)[j] = 0
    \/ \A j \in 1..n : Slots(pattern, eb, n)[j] # 0

\* C38: every tile a pre-composition board has put into its store has, on each
\* of its four sides, the colour 0 in every cell or in none, so that a side
\* pattern is not 0 exactly when every cell of the side is not 0
C38_NoSideMixesBorder ==
    opts.eb # 0 =>
        \A n \in StoreNames \ {"1x1"} :
            LET c == ClassOf(n)
            IN  \A i \in DOMAIN stores[n].tiles :
                    LET t == stores[n].tiles[i]
                    IN  /\ WholeSide(t.left, c.eb, c.ch)
                        /\ WholeSide(t.right, c.eb, c.ch)
                        /\ WholeSide(t.top, c.eb, c.cw)
                        /\ WholeSide(t.bottom, c.eb, c.cw)

\* C38, the case: the stores are built, and a 2x2 tile has a border along the
\* two cells of one side and none along the two cells of another
C38_BorderAlongWholeSide ==
    /\ pc = "done"
    /\ opts.eb # 0
    /\ \E n \in {"2x2", "2x2_t"} :
           \E i \in DOMAIN stores[n].tiles :
               LET t == stores[n].tiles[i]
                   eb == opts.eb
               IN  /\ Slots(t.left, eb, 2) = << 0, 0 >>
                   /\ Slots(t.top, eb, 2)[1] # 0
                   /\ Slots(t.top, eb, 2)[2] # 0

\* the board type a copy of a pre-composition board was given: its place among
\* the copies of its parent
TypeOfCopy(k) ==
    LET kids == boards[boards[k].parent].kids
    IN  ComposeTypes[CHOOSE n \in DOMAIN kids : kids[n] = k]

\* C39: each step that fills the 1x2 grid of a copy of a vertical board,
\* whichever of the nine board types the copy has, fuses an upper and a lower
\* tile whose shared edge is matched and no border: the bottom pattern of the
\* upper tile is the top pattern of the lower tile and is not 0, and the two
\* tiles have no piece in common
C39_InnerEdgeMatched ==
    [][\A k \in DOMAIN boards :
          (Fills(k) /\ boards[k].b.kind = "vertical") =>
              LET b == boards'[k].b
                  input == stores[b.lookups].tiles
                  upper == input[b.tile[PlacementAt(b, 0, 0)]]
                  lower == input[b.tile[PlacementAt(b, 0, 1)]]
              IN  /\ boards[k].parent # 0
                  /\ TypeOfCopy(k) \in { ComposeTypes[n] : n \in 1..9 }
                  /\ upper.bottom = lower.top
                  /\ upper.bottom # 0
                  /\ upper.mask \cap lower.mask = {}]_vars

\* C39, the case: the copies of a vertical board have run, and the copy of
\* type middle and a copy with a border have each filled their grid
C39_TwoTypesFilled ==
    /\ pc = "stage"
    /\ \E k1, k2 \in DOMAIN boards :
           /\ boards[k1].b.kind = "vertical" /\ boards[k1].parent # 0
           /\ boards[k2].b.kind = "vertical" /\ boards[k2].parent = boards[k1].parent
           /\ TypeOfCopy(k1) = typeMiddle
           /\ TypeOfCopy(k2) # typeMiddle
           /\ boards[k1].spc = "returned" /\ boards[k2].spc = "returned"
           /\ 0 < boards[k1].b.tile[1] /\ 0 < boards[k2].b.tile[1]

\* the boards made in this step as copies for tasks
NewTasks == { j \in DOMAIN boards' \ DOMAIN boards : boards'[j].parent # 0 }

\* a task is a board that is not threaded and has launched nothing: it runs
\* solve_for, or has returned from it, and the board it was copied from is
\* threaded
WorkersDoNotFanOut ==
    \A j \in DOMAIN boards :
        (boards[j].parent # 0 /\ boards[j].b.kind = "board") =>
            /\ ~boards[j].b.threaded
            /\ boards[boards[j].parent].b.threaded
            /\ boards[j].spc \in {"solve_for", "returned"}
            /\ boards[j].kids = << >>
            /\ boards[j].work = << >>
            /\ TasksOf(j) = {}

\* the counter of a threaded board is 0 until its solve() has taken the total,
\* and then the sum of the counters of its tasks
CountedOnce ==
    \A k \in DOMAIN boards :
        (boards[k].parent = 0 /\ boards[k].b.threaded) =>
            boards[k].b.solutions =
                IF boards[k].spc = "returned" THEN Total(TasksOf(k)) ELSE 0

\* C40: the copy of a board made for a task starts with the counter 0 and not
\* threaded, the board copied being threaded, and with the print and quit
\* flags of the board copied; a task launches no task; and the counter of the
\* threaded board, once its solve() has returned, is the sum of the counters
\* of its tasks and nothing else
C40_CopyStartsAfresh ==
    /\ [](WorkersDoNotFanOut /\ CountedOnce)
    /\ [][\A j \in NewTasks :
             LET other == boards[boards'[j].parent].b
             IN  /\ other.threaded
                 /\ boards'[j].b.solutions = 0
                 /\ ~boards'[j].b.threaded
                 /\ boards'[j].b.print = other.print
                 /\ boards'[j].b.quit = other.quit]_vars

\* C40, the case: a threaded solve has returned with a total of two or more,
\* found by two of its tasks, and the solve before it, not threaded, had found
\* as many
C40_TwoCopiesCounted ==
    /\ pc = "stage"
    /\ Len(found) = 1
    /\ \E k \in DOMAIN boards :
           /\ boards[k].b.threaded
           /\ boards[k].spc = "returned"
           /\ boards[k].b.solutions = found[1]
           /\ Cardinality({ j \in TasksOf(k) : 0 < boards[j].b.solutions }) >= 2

=============================================================================
